---- MODULE Spec2Model ----
(***************************************************************************)
(* A model of conda's dependency resolver (conda/resolve.py): MatchSpec,   *)
(* the index model of Resolve, the dependency walker (valid, touch,        *)
(* invalid_chains), the pruner (get_dists), the clause generator and the   *)
(* objective cascade of solve, and the install/remove planner.             *)
(*                                                                         *)
(* Strings that the code formats and parses are modelled by their parts:   *)
(* an fkey 'name-version-build.tar.bz2[fstr]...' is the record             *)
(* [n, v, b, fs] with fs the sequence of '[fstr]' suffixes; a MatchSpec    *)
(* text 'name [version [build]]' is the tuple SpecText.  Versions are      *)
(* integers, ordered as normalized_version orders them.  Python dicts and  *)
(* sets are iterated in ascending key order.                               *)
(***************************************************************************)
EXTENDS Integers, Sequences, FiniteSets, TLC

(***************************************************************************)
(* Generic helpers.                                                        *)
(***************************************************************************)
Range(s) == {s[i] : i \in DOMAIN s}

\* a local name: B of the value v, computed once
With(v, B(_)) == B(v)

RECURSIVE SeqFilter(_, _)
SeqFilter(s, S) ==
    IF s = <<>> THEN <<>>
    ELSE IF Head(s) \in S THEN <<Head(s)>> \o SeqFilter(Tail(s), S)
         ELSE SeqFilter(Tail(s), S)

RECURSIVE Dedup(_)
Dedup(s) ==
    IF s = <<>> THEN <<>>
    ELSE With(Dedup(SubSeq(s, 1, Len(s) - 1)),
              LAMBDA d : IF s[Len(s)] \in Range(d) THEN d ELSE Append(d, s[Len(s)]))

Reverse(s) == [i \in 1..Len(s) |-> s[Len(s) + 1 - i]]

RECURSIVE SumOver(_, _)
SumOver(S, f) ==
    IF S = {} THEN 0
    ELSE LET x == CHOOSE y \in S : TRUE IN f[x] + SumOver(S \ {x}, f)

(***************************************************************************)
(* Names.  A name starting with '@' is a feature-tracker name.             *)
(***************************************************************************)
NameRank(n) ==
    CASE n = "@f" -> 0
      [] n = "a" -> 1
      [] n = "b" -> 2
      [] n = "c" -> 3
      [] n = "d" -> 4
      [] n = "m" -> 5
      [] n = "t" -> 6
      [] OTHER -> 7

IsFeatName(n) == n = "@f"
FeatOf(n) == IF n = "@f" THEN "f" ELSE n
FeatSpecName(feat) == IF feat = "f" THEN "@f" ELSE feat

(***************************************************************************)
(* fkeys.                                                                  *)
(***************************************************************************)
Key(n, v, b) == [n |-> n, v |-> v, b |-> b, fs |-> <<>>]
NoKey == [n |-> "", v |-> 0, b |-> 0, fs |-> <<>>]
VKey(k, fstr) == [k EXCEPT !.fs = Append(k.fs, fstr)]
IsVirtual(k) == k.fs # <<>>
BaseKey(k) == [k EXCEPT !.fs = SubSeq(k.fs, 1, Len(k.fs) - 1)]
LastFstr(k) == k.fs[Len(k.fs)]

\* string order of two fkeys
KeyLT(k1, k2) ==
    \/ NameRank(k1.n) < NameRank(k2.n)
    \/ /\ k1.n = k2.n
       /\ \/ k1.v < k2.v
          \/ k1.v = k2.v /\ k1.b < k2.b
          \/ k1.v = k2.v /\ k1.b = k2.b /\ Len(k1.fs) < Len(k2.fs)

RECURSIVE KeySeq(_)
KeySeq(S) ==
    IF S = {} THEN <<>>
    ELSE LET k == CHOOSE x \in S : \A y \in S \ {x} : KeyLT(x, y)
         IN <<k>> \o KeySeq(S \ {k})

RECURSIVE NameSeq(_)
NameSeq(S) ==
    IF S = {} THEN <<>>
    ELSE LET n == CHOOSE x \in S : \A y \in S : NameRank(x) <= NameRank(y)
         IN <<n>> \o NameSeq(S \ {n})

IsSortedKeys(s) == \A i \in 1..(Len(s) - 1) : KeyLT(s[i], s[i + 1]) \/ s[i] = s[i + 1]

\* sorted(list): ascending string order, equal entries kept
RECURSIVE SortKeyList(_)
SortKeyList(s) ==
    IF s = <<>> THEN <<>>
    ELSE LET i == CHOOSE j \in DOMAIN s : \A l \in DOMAIN s : ~KeyLT(s[l], s[j])
         IN <<s[i]>> \o SortKeyList(SubSeq(s, 1, i - 1) \o SubSeq(s, i + 1, Len(s)))

(***************************************************************************)
(* MatchSpec.                                                              *)
(***************************************************************************)
AtVer == 0 - 1

MS(name, strictness, vop, ver, build, optional, target) ==
    [name |-> name, strictness |-> strictness, vop |-> vop, ver |-> ver,
     build |-> build, optional |-> optional, target |-> target]

MSName(name) == MS(name, 1, "", 0, 0, FALSE, NoKey)
MSEq(name, ver) == MS(name, 2, "eq", ver, 0, FALSE, NoKey)
MSGe(name, ver) == MS(name, 2, "ge", ver, 0, FALSE, NoKey)
MSExact(name, ver, build) == MS(name, 3, "", ver, build, FALSE, NoKey)
Optional(ms) == [ms EXCEPT !.optional = TRUE]
WithTarget(ms, fkey) == [ms EXCEPT !.target = fkey]

\* the 'spec' attribute: the text without the option part
SpecText(ms) == <<ms.name, ms.strictness, ms.vop, ms.ver, ms.build>>

VersionSpec_match(vop, vspec, version) ==
    IF vop = "ge" THEN version >= vspec ELSE version = vspec

match_fast(ms, version, build) ==
    IF ms.strictness = 1 THEN TRUE
    ELSE IF ms.strictness = 2 THEN VersionSpec_match(ms.vop, ms.ver, version)
    ELSE version = ms.ver /\ build = ms.build

to_filename(ms) ==
    IF ms.strictness = 3 /\ ~ms.optional THEN Key(ms.name, ms.ver, ms.build)
    ELSE NoKey

MatchSpec_eq(m1, m2) ==
    /\ SpecText(m1) = SpecText(m2)
    /\ m1.optional = m2.optional
    /\ m1.target = m2.target

\* __hash__ as it would be if it hashed what __eq__ compares
MatchSpec_hash_all(ms) == <<SpecText(ms), ms.optional, ms.target>>

MatchSpec_hash(ms) == SpecText(ms)

(***************************************************************************)
(* Records and the index model of Resolve.                                 *)
(***************************************************************************)
Rec(k, depends, feats, track, wfd) ==
    [name |-> k.n, version |-> k.v, build |-> k.b, build_number |-> k.b,
     depends |-> depends, features |-> feats, track_features |-> track, with_features_depends |-> wfd,
     priority |-> 1]

NoWfd == [x \in {} |-> <<>>]

\* the keys Resolve.__init__ adds to the index dict when not 'processed'
VirtualKeys(index) ==
    {VKey(k, fstr) : k \in DOMAIN index, fstr \in {"f"}} \cap
    {vk \in {VKey(k, fstr) : k \in DOMAIN index, fstr \in {"f"}} :
        LastFstr(vk) \in DOMAIN index[BaseKey(vk)].with_features_depends}

AddVirtual(index) ==
    [k \in DOMAIN index \cup VirtualKeys(index) |->
        IF k \in DOMAIN index THEN index[k] ELSE index[BaseKey(k)]]

\* config.channel_priority, a setting of the process
VARIABLE channel_priority

\* version_key as it would be without the channel_priority setting
version_key_off(index, fkey) ==
    <<index[fkey].version, 0 - index[fkey].priority, index[fkey].build_number>>

version_key(index, fkey) ==
    LET cpri == 0 - index[fkey].priority
        ver == index[fkey].version
        bld == index[fkey].build_number
    IN IF channel_priority THEN <<cpri, ver, bld>> ELSE <<ver, cpri, bld>>

VKeyLT(a, b) ==
    \/ a[1] < b[1]
    \/ a[1] = b[1] /\ a[2] < b[2]
    \/ a[1] = b[1] /\ a[2] = b[2] /\ a[3] < b[3]

\* the place of g[j] in sorted(g, key=version_key, reverse=True): after the
\* entries of a greater key and the earlier entries of an equal key
SortPlace(index, g, j) ==
    1 + Cardinality({l \in DOMAIN g :
                       \/ VKeyLT(version_key(index, g[j]), version_key(index, g[l]))
                       \/ l < j /\ version_key(index, g[l]) = version_key(index, g[j])})

\* sorted(group, key=version_key, reverse=True): stable, ties keep their order
SortGroup(index, g) ==
    [p \in 1..Len(g) |-> g[CHOOSE j \in DOMAIN g : SortPlace(index, g, j) = p]]

GroupNames(index) == {index[k].name : k \in DOMAIN index}
TrackNames(index) == UNION {index[k].track_features : k \in DOMAIN index}

Resolve(index0, sort, processed) ==
    LET index == IF processed THEN index0 ELSE AddVirtual(index0)
        order == KeySeq(DOMAIN index)
        grp(name) == SeqFilter(order, {k \in DOMAIN index : index[k].name = name})
    IN [index |-> index,
        groups |-> [name \in GroupNames(index) |->
                      IF sort THEN SortGroup(index, grp(name)) ELSE grp(name)],
        trackers |-> [feat \in TrackNames(index) |->
                      SeqFilter(order, {k \in DOMAIN index :
                                          feat \in index[k].track_features})]]

groups_get(r, name) == IF name \in DOMAIN r.groups THEN r.groups[name] ELSE <<>>
trackers_get(r, feat) == IF feat \in DOMAIN r.trackers THEN r.trackers[feat] ELSE <<>>

features(r, fkey) == r.index[fkey].features
track_features(r, fkey) == r.index[fkey].track_features

package_triple(r, fkey) ==
    IF fkey \in DOMAIN r.index
    THEN <<r.index[fkey].name, r.index[fkey].version, r.index[fkey].build>>
    ELSE <<fkey.n, fkey.v, fkey.b>>

package_name(r, fkey) == package_triple(r, fkey)[1]

(***************************************************************************)
(* Matcher and dependency walker.                                          *)
(***************************************************************************)
Resolve_match_fast(r, ms, fkey) ==
    match_fast(ms, r.index[fkey].version, r.index[fkey].build)

match_any(r, mss, fkey) ==
    \E i \in DOMAIN mss :
        /\ r.index[fkey].name = mss[i].name
        /\ match_fast(mss[i], r.index[fkey].version, r.index[fkey].build)

find_matches(r, ms) ==
    IF IsFeatName(ms.name) THEN trackers_get(r, FeatOf(ms.name))
    ELSE SeqFilter(groups_get(r, ms.name),
                   {p \in Range(groups_get(r, ms.name)) : Resolve_match_fast(r, ms, p)})

\* fdeps[dep.name] = dep over a list of deps: a later dep of a name replaces
\* the earlier one in place, a dep of a new name is added at the end
RECURSIVE MergeByName(_, _)
MergeByName(deps, more) ==
    IF more = <<>> THEN deps
    ELSE LET d == Head(more)
             at == {i \in DOMAIN deps : deps[i].name = d.name}
         IN MergeByName(IF at = {} THEN Append(deps, d)
                        ELSE [i \in DOMAIN deps |-> IF i \in at THEN d ELSE deps[i]],
                        Tail(more))

FeatDeps(r, fkey) ==
    [i \in 1..Len(NameSeq(features(r, fkey))) |->
        MSName(FeatSpecName(NameSeq(features(r, fkey))[i]))]

\* ms_depends raises KeyError when the base of a virtual key is not in the index
ms_depends_ok(r, fkey) ==
    /\ fkey \in DOMAIN r.index
    /\ \A n \in 0..Len(fkey.fs) :
         [fkey EXCEPT !.fs = SubSeq(fkey.fs, 1, n)] \in DOMAIN r.index

RECURSIVE ms_depends(_, _)
ms_depends(r, fkey) ==
    LET rec == r.index[fkey]
    IN IF IsVirtual(fkey)
       THEN MergeByName(MergeByName(<<>>, ms_depends(r, BaseKey(fkey))),
                        rec.with_features_depends[LastFstr(fkey)])
            \o FeatDeps(r, fkey)
       ELSE rec.depends \o FeatDeps(r, fkey)

(***************************************************************************)
(* filter and touched dictionaries: functions from the keys recorded so    *)
(* far to BOOLEAN.                                                         *)
(***************************************************************************)
EmptyDict == [x \in {} |-> TRUE]
Put(d, k, v) == [x \in DOMAIN d \cup {k} |-> IF x = k THEN v ELSE d[x]]
PutAll(d, S, v) == [x \in DOMAIN d \cup S |-> IF x \in S THEN v ELSE d[x]]
GetOr(d, k, default) == IF k \in DOMAIN d THEN d[k] ELSE default

(***************************************************************************)
(* valid(spec, filter): v_ms_ and v_fkey_ with the short circuit of any()  *)
(* and all(); each returns the value and the filter as it has become.      *)
(***************************************************************************)
RECURSIVE v_fkey_(_, _, _)
RECURSIVE v_all(_, _, _)
RECURSIVE v_any(_, _, _)

v_ms_(r, ms, filter) ==
    IF ms.optional THEN [val |-> TRUE, filter |-> filter]
    ELSE v_any(r, find_matches(r, ms), filter)

v_any(r, fkeys, filter) ==
    IF fkeys = <<>> THEN [val |-> FALSE, filter |-> filter]
    ELSE With(v_fkey_(r, Head(fkeys), filter),
              LAMBDA h : IF h.val THEN h ELSE v_any(r, Tail(fkeys), h.filter))

v_all(r, deps, filter) ==
    IF deps = <<>> THEN [val |-> TRUE, filter |-> filter]
    ELSE With(v_ms_(r, Head(deps), filter),
              LAMBDA h : IF h.val THEN v_all(r, Tail(deps), h.filter) ELSE h)

\* v_fkey_ as it would be if an fkey counted as invalid while its own
\* dependencies are being looked at
v_fkey_strict(r, fkey, filter) ==
    IF fkey \in DOMAIN filter THEN [val |-> filter[fkey], filter |-> filter]
    ELSE With(v_all(r, ms_depends(r, fkey), Put(filter, fkey, FALSE)),
              LAMBDA res : [val |-> res.val, filter |-> Put(res.filter, fkey, res.val)])

v_fkey_(r, fkey, filter) ==
    IF fkey \in DOMAIN filter THEN [val |-> filter[fkey], filter |-> filter]
    ELSE With(v_all(r, ms_depends(r, fkey), Put(filter, fkey, TRUE)),
              LAMBDA res : [val |-> res.val, filter |-> Put(res.filter, fkey, res.val)])

valid(r, fkey, filter) == v_fkey_(r, fkey, filter)
valid_ms(r, ms, filter) == v_ms_(r, ms, filter)

(***************************************************************************)
(* touch(specs, filter): the worklist is the caller's list; pop() takes    *)
(* from its end and the loop runs until it is empty.                       *)
(***************************************************************************)
RECURSIVE touch_matches(_, _, _, _)
touch_matches(r, fkeys, stack, st) ==
    IF fkeys = <<>> THEN [stack |-> stack, touched |-> st.touched, filter |-> st.filter]
    ELSE LET fkey == Head(fkeys)
         IN IF fkey \in DOMAIN st.touched
            THEN touch_matches(r, Tail(fkeys), stack, st)
            ELSE With(valid(r, fkey, st.filter),
                      LAMBDA v :
                        touch_matches(r, Tail(fkeys),
                                      IF v.val THEN stack \o ms_depends(r, fkey) ELSE stack,
                                      [touched |-> Put(st.touched, fkey, v.val),
                                       filter |-> v.filter]))

RECURSIVE touch_loop(_, _, _)
touch_loop(r, stack, st) ==
    IF stack = <<>> THEN st
    ELSE With(touch_matches(r, find_matches(r, stack[Len(stack)]),
                            SubSeq(stack, 1, Len(stack) - 1), st),
              LAMBDA res :
                touch_loop(r, res.stack, [touched |-> res.touched, filter |-> res.filter]))

\* the result: touched, the filter, and the caller's list as touch leaves it
touch(r, specs, filter) ==
    With(touch_loop(r, specs, [touched |-> EmptyDict, filter |-> filter]),
         LAMBDA st : [touched |-> st.touched, filter |-> st.filter, specs |-> <<>>])

(***************************************************************************)
(* invalid_chains(spec, filter).  Only whether the list of chains is empty *)
(* decides what verify_specs does; the filter and snames are threaded as   *)
(* chains_ changes them.                                                   *)
(***************************************************************************)
RECURSIVE any_valid(_, _, _)
any_valid(r, slist, filter) ==
    IF slist = <<>> THEN [val |-> FALSE, filter |-> filter]
    ELSE With(valid_ms(r, Head(slist), filter),
              LAMBDA h : IF h.val THEN h ELSE any_valid(r, Tail(slist), h.filter))

RECURSIVE FlatMatches(_, _)
FlatMatches(r, slist) ==
    IF slist = <<>> THEN <<>>
    ELSE find_matches(r, Head(slist)) \o FlatMatches(r, Tail(slist))

RECURSIVE FlatDeps(_, _)
FlatDeps(r, fkeys) ==
    IF fkeys = <<>> THEN <<>>
    ELSE ms_depends(r, Head(fkeys)) \o FlatDeps(r, Tail(fkeys))

SpecsOfName(deps, name) ==
    Dedup(SeqFilter(deps, {d \in Range(deps) : d.name = name}))

RECURSIVE chains_(_, _, _)
RECURSIVE chains_deps(_, _, _, _)
RECURSIVE chains_groups(_, _, _, _)

chains_deps(r, dnames, deps, st) ==
    IF dnames = <<>> THEN st
    ELSE With(chains_(r, SpecsOfName(deps, Head(dnames)), st),
              LAMBDA res : chains_deps(r, Tail(dnames), deps,
                                       [filter |-> res.filter, snames |-> res.snames]))

chains_groups(r, names, matches, st) ==
    IF names = <<>> THEN st
    ELSE LET fgroup == SeqFilter(matches, {k \in Range(matches) :
                                              package_name(r, k) = Head(names)})
             deps == FlatDeps(r, fgroup)
             st1 == [st EXCEPT !.filter = PutAll(st.filter, Range(fgroup), TRUE)]
         IN With(chains_deps(r, NameSeq({d.name : d \in Range(deps)}), deps, st1),
                 LAMBDA st2 :
                   chains_groups(r, Tail(names), matches,
                       [st2 EXCEPT !.filter = PutAll(st2.filter, Range(fgroup), FALSE)]))

chains_(r, slist, st) ==
    LET sname == Head(slist).name
    IN IF sname \in st.snames
       THEN [filter |-> st.filter, snames |-> st.snames, chains |-> FALSE]
       ELSE With(any_valid(r, slist, st.filter),
                 LAMBDA v :
                   IF v.val
                   THEN [filter |-> v.filter, snames |-> st.snames, chains |-> FALSE]
                   ELSE LET matches == FlatMatches(r, slist)
                            names == NameSeq({package_name(r, k) : k \in Range(matches)})
                        IN With(chains_groups(r, names, matches,
                                    [filter |-> v.filter,
                                     snames |-> st.snames \cup {sname}]),
                                LAMBDA st2 : [filter |-> st2.filter,
                                              snames |-> st2.snames, chains |-> TRUE]))

invalid_chains(r, spec, filter) ==
    With(chains_(r, <<spec>>, [filter |-> filter, snames |-> {}]),
         LAMBDA res : [chains |-> res.chains, filter |-> res.filter])

RECURSIVE verify_loop(_, _, _, _)
verify_loop(r, specs, filter, bad) ==
    IF specs = <<>> THEN bad
    ELSE IF Head(specs).optional THEN verify_loop(r, Tail(specs), filter, bad)
    ELSE With(invalid_chains(r, Head(specs), filter),
              LAMBDA res : verify_loop(r, Tail(specs), res.filter, bad \/ res.chains))

\* "ok" when verify_specs returns the specs, else the exception it raises
verify_specs(r, specs, unsat) ==
    IF ~verify_loop(r, specs, EmptyDict, FALSE) THEN "ok"
    ELSE IF ~unsat THEN "NoPackagesFound" ELSE "Unsatisfiable"

(***************************************************************************)
(* The pruner get_dists.  filter_group shares filter and snames with its   *)
(* caller; a BadPrune exception is the field bad (the name it carries,     *)
(* "" when none was raised) and ends every enclosing loop.                 *)
(***************************************************************************)
NoName == ""

DepSurvives(r, ms, filter) ==
    \E f2 \in Range(find_matches(r, ms)) : GetOr(filter, f2, TRUE)

RECURSIVE fg_prune(_, _, _, _, _)
fg_prune(r, matches, isfeat, group, acc) ==
    IF group = <<>> THEN acc
    ELSE LET fkey == Head(group)
         IN IF GetOr(acc.filter, fkey, TRUE)
            THEN With(/\ isfeat \/ match_any(r, matches, fkey)
                      /\ \A ms \in Range(ms_depends(r, fkey)) :
                            DepSurvives(r, ms, acc.filter),
                      LAMBDA sat :
                        fg_prune(r, matches, isfeat, Tail(group),
                                 [filter |-> Put(acc.filter, fkey, sat),
                                  nold |-> acc.nold + 1,
                                  nnew |-> acc.nnew + (IF sat THEN 1 ELSE 0)]))
            ELSE fg_prune(r, matches, isfeat, Tail(group), acc)

\* the entries cdeps[m2.name].append(m2) collects, in order
CommonDeps(r, group, filter) ==
    LET deps == FlatDeps(r, SeqFilter(group, {k \in Range(group) : filter[k]}))
    IN SeqFilter(deps, {m2 \in Range(deps) : ~IsFeatName(m2.name) /\ ~m2.optional})

CountOfName(deps, name) == Cardinality({i \in DOMAIN deps : deps[i].name = name})

\* the dependency names filter_group recurses on: those it takes as shared
CdepsNames(deps, nnew) ==
    {name \in {d.name : d \in Range(deps)} : CountOfName(deps, name) >= nnew}

RECURSIVE filter_group(_, _, _)
RECURSIVE fg_cdeps(_, _, _, _, _)

fg_cdeps(r, names, deps, st, count) ==
    IF names = <<>> THEN [count |-> count, filter |-> st.filter,
                          snames |-> st.snames, bad |-> NoName]
    ELSE With(filter_group(r, SpecsOfName(deps, Head(names)), st),
              LAMBDA res :
                IF res.bad # NoName
                THEN [count |-> count, filter |-> res.filter,
                      snames |-> res.snames, bad |-> res.bad]
                ELSE fg_cdeps(r, Tail(names), deps,
                              [filter |-> res.filter, snames |-> res.snames],
                              count + (IF res.reduced THEN 1 ELSE 0)))

filter_group(r, matches, st) ==
    LET name == Head(matches).name
        isopt == \A i \in DOMAIN matches : matches[i].optional
        isfeat == IsFeatName(name)
        first == name \notin st.snames
        group == IF isfeat THEN trackers_get(r, FeatOf(name)) ELSE groups_get(r, name)
    IN With(fg_prune(r, matches, isfeat, group,
                [filter |-> PutAll(st.filter, Range(group) \ DOMAIN st.filter, TRUE),
                 nold |-> 0, nnew |-> 0]),
            LAMBDA p :
              LET reduced == p.nnew < p.nold
              IN IF p.nnew = 0
                 THEN [reduced |-> FALSE, filter |-> p.filter,
                       snames |-> st.snames \ {name},
                       bad |-> IF isopt THEN NoName ELSE name]
                 ELSE IF (~reduced /\ ~first) \/ isopt \/ isfeat
                 THEN [reduced |-> reduced, filter |-> p.filter, snames |-> st.snames,
                       bad |-> NoName]
                 ELSE With(CommonDeps(r, group, p.filter),
                           LAMBDA deps :
                             With(fg_cdeps(r, NameSeq(CdepsNames(deps, p.nnew)), deps,
                                      [filter |-> p.filter,
                                       snames |-> st.snames \cup {name}], 0),
                                  LAMBDA c : [reduced |-> reduced \/ c.count > 0,
                                              filter |-> c.filter,
                                              snames |-> c.snames, bad |-> c.bad])))

\* sum(filter_group([s]) for s in slist)
RECURSIVE fg_sum(_, _, _, _)
fg_sum(r, slist, st, count) ==
    IF slist = <<>> THEN [count |-> count, filter |-> st.filter,
                          snames |-> st.snames, bad |-> NoName]
    ELSE With(filter_group(r, <<Head(slist)>>, st),
              LAMBDA res :
                IF res.bad # NoName
                THEN [count |-> count, filter |-> res.filter,
                      snames |-> res.snames, bad |-> res.bad]
                ELSE fg_sum(r, Tail(slist),
                            [filter |-> res.filter, snames |-> res.snames],
                            count + (IF res.reduced THEN 1 ELSE 0)))

NewSpecs(snames, onames) ==
    [i \in 1..Len(NameSeq(snames \ onames)) |-> MSName(NameSeq(snames \ onames)[i])]

\* the while loop of one iteration; g holds specs, slist (aliased: slist is
\* the list object specs), new_specs, filter, snames, first
RECURSIVE fg_while(_, _, _)
fg_while(r, onames, g) ==
    With(fg_sum(r, g.slist, [filter |-> g.filter, snames |-> g.snames], 0),
         LAMBDA res :
           LET g1 == [g EXCEPT !.filter = res.filter, !.snames = res.snames]
           IN IF res.bad # NoName
              THEN [g1 EXCEPT !.unsat = res.bad, !.new_specs_none = TRUE]
              ELSE IF res.count = 0 THEN g1
              ELSE fg_while(r, onames,
                       [g1 EXCEPT !.new_specs = NewSpecs(res.snames, onames),
                                  !.slist = g.specs \o NewSpecs(res.snames, onames),
                                  !.aliased = FALSE,
                                  !.first = FALSE]))

TouchedFeats(r, touched) ==
    UNION {track_features(r, fkey) : fkey \in {k \in DOMAIN touched : touched[k]}}

PruneFeats(r, filter, dead) ==
    LET hit == {fkey \in UNION {Range(r.trackers[feat]) : feat \in dead} :
                  GetOr(filter, fkey, TRUE)}
    IN [filter |-> PutAll(filter, hit, FALSE), pruned |-> hit # {}]

MaxIter == 10

RECURSIVE gd_loop(_, _, _, _)
gd_loop(r, onames, iter, g0) ==
    IF iter >= MaxIter THEN g0
    ELSE
    With(fg_while(r, onames, [g0 EXCEPT !.first = TRUE, !.unsat = NoName,
                                        !.iters = iter + 1]),
         LAMBDA g :
           IF g.unsat = NoName /\ g.first /\ iter # 0 THEN g
           ELSE With(touch(r, g.specs,
                           IF g.unsat # NoName THEN EmptyDict ELSE g.filter),
                     LAMBDA t :
                       LET g2 == [g EXCEPT
                                    !.touched = t.touched,
                                    !.filter = IF g.unsat # NoName
                                               THEN g.filter ELSE t.filter,
                                    !.specs = t.specs,
                                    !.slist = IF g.aliased THEN t.specs ELSE g.slist]
                           nfeats == TouchedFeats(r, t.touched)
                           pf == PruneFeats(r, g2.filter, g2.feats \ nfeats)
                       IN IF g.unsat # NoName THEN g2
                          ELSE IF Cardinality(nfeats) >= Cardinality(g2.feats) THEN g2
                          ELSE IF ~pf.pruned
                          THEN [g2 EXCEPT !.feats = g2.feats \cap nfeats]
                          ELSE gd_loop(r, onames, iter + 1,
                                       [g2 EXCEPT !.feats = g2.feats \cap nfeats,
                                                  !.filter = pf.filter])))

\* get_dists(specs, full=True): exc is the exception raised ("" when none),
\* iters the number of passes of the for loop that were begun
get_dists(r, specs) ==
    With(verify_specs(r, specs, FALSE),
         LAMBDA verified :
           IF verified # "ok"
           THEN [exc |-> verified, dists |-> {}, iters |-> 0,
                 new_specs |-> <<>>, new_specs_none |-> FALSE, unsat |-> NoName]
           ELSE With(gd_loop(r, {specs[i].name : i \in DOMAIN specs}, 0,
                         [specs |-> specs, slist |-> specs, aliased |-> TRUE,
                          new_specs |-> <<>>, new_specs_none |-> FALSE,
                          filter |-> EmptyDict, snames |-> {}, first |-> TRUE,
                          unsat |-> NoName, touched |-> EmptyDict,
                          feats |-> DOMAIN r.trackers, iters |-> 0]),
                     LAMBDA g :
                       [exc |-> "", dists |-> {k \in DOMAIN g.touched : g.touched[k]},
                        new_specs |-> g.new_specs, new_specs_none |-> g.new_specs_none,
                        unsat |-> g.unsat, iters |-> g.iters]))

(***************************************************************************)
(* Clause generator.  A truth assignment of the Clauses object is the set  *)
(* S of fkeys whose variable is true; the proxies '@s@...' are functions   *)
(* of S.                                                                   *)
(***************************************************************************)
\* push_MatchSpec as it would be if an optional spec constrained nothing
push_MatchSpec_lax(r, S, ms) ==
    \/ ms.optional
    \/ S \cap (IF IsFeatName(ms.name) THEN Range(trackers_get(r, FeatOf(ms.name)))
                ELSE {fkey \in Range(groups_get(r, ms.name)) :
                        Resolve_match_fast(r, ms, fkey)}) # {}

\* the value of the variable push_MatchSpec names for ms
push_MatchSpec(r, S, ms) ==
    LET libs == IF IsFeatName(ms.name)
                THEN (IF ms.optional THEN {} ELSE Range(trackers_get(r, FeatOf(ms.name))))
                ELSE {fkey \in Range(groups_get(r, ms.name)) :
                        Resolve_match_fast(r, ms, fkey) = ~ms.optional}
        any == S \cap libs # {}
    IN IF ms.optional THEN ~any ELSE any

\* gen_clauses raises KeyError when ms_depends does
gen_clauses_ok(r) == \A fkey \in DOMAIN r.index : ms_depends_ok(r, fkey)

\* gen_clauses as it would be without the AtMostOne clause of each group
gen_clauses_nolimit(r, S) ==
    \A fkey \in S : \A ms \in Range(ms_depends(r, fkey)) :
        ms.optional \/ push_MatchSpec(r, S, ms)

\* the clauses of gen_clauses hold of S
gen_clauses(r, S) ==
    /\ \A name \in DOMAIN r.groups : Cardinality(S \cap Range(r.groups[name])) <= 1
    /\ \A fkey \in S : \A ms \in Range(ms_depends(r, fkey)) :
          ms.optional \/ push_MatchSpec(r, S, ms)

generate_spec_constraints(r, S, specs) ==
    \A i \in DOMAIN specs : push_MatchSpec(r, S, specs[i])

\* the assignments of the Clauses object built by gen_clauses
Assignments(r) ==
    {S \in SUBSET (DOMAIN r.index) : gen_clauses(r, S)}

\* the models C.sat(constraints) can return; {} when it returns None
sat(r, specs) ==
    {S \in Assignments(r) : generate_spec_constraints(r, S, specs)}

(***************************************************************************)
(* Objective builder.                                                      *)
(***************************************************************************)
generate_removal_count(r, S, speco) ==
    Cardinality({ms.name : ms \in {m \in Range(speco) :
                                     ~push_MatchSpec(r, S, MSName(m.name))}})

\* a feature count that charges nothing for a tracked feature
generate_feature_count_flat(r, S) == 0

generate_feature_count(r, S) ==
    Cardinality({name \in DOMAIN r.trackers :
                   push_MatchSpec(r, S, MSName(FeatSpecName(name)))})

MaxOf(T) == CHOOSE x \in T : \A y \in T : y <= x

\* a feature metric that prefers no artifact to another
generate_feature_metric_flat(r, S) == 0

generate_feature_metric(r, S) ==
    LET nf(fkey) == Cardinality(features(r, fkey))
        maxf(name) == MaxOf({nf(fkey) : fkey \in Range(r.groups[name])})
    IN SumOver(S, [fkey \in S |-> maxf(r.index[fkey].name) - nf(fkey)])

generate_package_count(r, S, missing) ==
    Cardinality({nm \in missing : push_MatchSpec(r, S, MSName(nm))})

\* (version_key(p), p) < (version_key(q), q)
PkgLT(r, p, q) ==
    \/ VKeyLT(version_key(r.index, p), version_key(r.index, q))
    \/ version_key(r.index, p) = version_key(r.index, q) /\ KeyLT(p, q)

\* the list the coefficients are counted along
MetricOrder(r, name, mss) ==
    LET pkgs == groups_get(r, name)
        tl == SeqFilter([i \in DOMAIN mss |-> mss[i].target],
                        {mss[i].target : i \in {j \in DOMAIN mss :
                            mss[j].target # NoKey /\ mss[j].target \in DOMAIN r.index}})
        tver == CHOOSE t \in Range(tl) : \A u \in Range(tl) : ~PkgLT(r, t, u)
        v2 == SeqFilter(pkgs, {p \in Range(pkgs) : PkgLT(r, tver, p)})
        v3 == Reverse(SeqFilter(pkgs, {p \in Range(pkgs) :
                                         ~PkgLT(r, tver, p) /\ p \notin Range(tl)}))
    IN IF tl = <<>> THEN pkgs ELSE tl \o v2 \o v3

\* the walk as it would be if every change of the key, that of the build
\* number too, counted as a change of version
RECURSIVE MetricWalk_anykey(_, _, _, _, _, _)
MetricWalk_anykey(r, pkgs, i, iv, ib, acc) ==
    IF i > Len(pkgs) THEN acc
    ELSE LET nkey == version_key(r.index, pkgs[i])
             pkey == version_key(r.index, pkgs[i - 1])
             iv2 == IF i = 1 THEN 0 ELSE IF pkey # nkey THEN iv + 1 ELSE iv
         IN MetricWalk_anykey(r, pkgs, i + 1, iv2, 0,
                              [eqv |-> Put(acc.eqv, pkgs[i], iv2),
                               eqb |-> Put(acc.eqb, pkgs[i], 0)])

RECURSIVE MetricWalk(_, _, _, _, _, _)
MetricWalk(r, pkgs, i, iv, ib, acc) ==
    IF i > Len(pkgs) THEN acc
    ELSE LET nkey == version_key(r.index, pkgs[i])
             pkey == version_key(r.index, pkgs[i - 1])
             iv2 == IF i = 1 THEN 0
                    ELSE IF pkey[1] # nkey[1] \/ pkey[2] # nkey[2] THEN iv + 1 ELSE iv
             ib2 == IF i = 1 THEN 0
                    ELSE IF pkey[1] # nkey[1] \/ pkey[2] # nkey[2] THEN 0
                    ELSE IF pkey[3] # nkey[3] THEN ib + 1 ELSE ib
         IN MetricWalk(r, pkgs, i + 1, iv2, ib2,
                       [eqv |-> Put(acc.eqv, pkgs[i], iv2),
                        eqb |-> Put(acc.eqb, pkgs[i], ib2)])

RECURSIVE MetricNames(_, _, _, _)
MetricNames(r, names, specs, acc) ==
    IF names = <<>> THEN acc
    ELSE MetricNames(r, Tail(names), specs,
            MetricWalk(r, MetricOrder(r, Head(names),
                              SeqFilter(specs, {m \in Range(specs) : m.name = Head(names)})),
                       1, 0, 0, acc))

Nonzero(eq) == [k \in {x \in DOMAIN eq : eq[x] # 0} |-> eq[k]]

\* version metrics that prefer no version and no build to another
generate_version_metrics_flat(r, specs, include0) ==
    [eqv |-> [x \in {} |-> 0], eqb |-> [x \in {} |-> 0]]

\* eqv and eqb: the coefficient of every listed fkey, zeros left out unless
\* include0
generate_version_metrics(r, specs, include0) ==
    With(MetricNames(r, NameSeq({m.name : m \in Range(specs)}), specs,
                     [eqv |-> [x \in {} |-> 0], eqb |-> [x \in {} |-> 0]]),
         LAMBDA all : IF include0 THEN all
                      ELSE [eqv |-> Nonzero(all.eqv), eqb |-> Nonzero(all.eqb)])

Objective(eq, S) == SumOver(S \cap DOMAIN eq, eq)

\* C.minimize: the assignments of Sols with the least value of cost
minimize(Sols, cost(_)) ==
    IF Sols = {} THEN {}
    ELSE With([S \in Sols |-> cost(S)],
              LAMBDA val :
                With(Range(val),
                     LAMBDA costs :
                       With(CHOOSE x \in costs : \A y \in costs : x <= y,
                            LAMBDA best : {S \in Sols : val[S] = best})))

(***************************************************************************)
(* Solver driver.  solve either raises (exc) or returns one of the         *)
(* assignments in sols, cleaned, stripped and sorted.                      *)
(***************************************************************************)
Restrict(index, D) == [k \in D |-> index[k]]

\* speco, specr, speca and specm as the loop over chain(specs, new_specs)
\* leaves them
Classify(r2, all, len0) ==
    LET opt(i) == all[i].optional /\ find_matches(r2, all[i]) # <<>>
        asopt(ms) == MS(ms.name, 1, "", 0, 0, TRUE, ms.target)
        pick(i) == IF ~all[i].optional THEN all[i] ELSE asopt(all[i])
        at(I) == [j \in 1..Len(SeqFilter([i \in DOMAIN all |-> i], I)) |->
                    pick(SeqFilter([i \in DOMAIN all |-> i], I)[j])]
        specm == DOMAIN r2.groups \ {all[i].name : i \in DOMAIN all}
    IN [speco |-> at({i \in DOMAIN all : opt(i)}),
        specr |-> at({i \in DOMAIN all : ~all[i].optional /\ i <= len0}),
        speca |-> at({i \in DOMAIN all : (~all[i].optional /\ i > len0) \/ opt(i)})
                  \o [j \in 1..Len(NameSeq(specm)) |-> MSName(NameSeq(specm)[j])],
        specm |-> specm]

\* the minimizations of solve, in order
Cascade(r2, s0, cl) ==
    With(generate_version_metrics(r2, cl.specr, FALSE),
         LAMBDA req :
           With(generate_version_metrics(r2, cl.speca, FALSE),
                LAMBDA rest :
                  LET c7(S) == generate_removal_count(r2, S, cl.speco)
                      c3(S) == Objective(req.eqv, S)
                      c4(S) == Objective(req.eqb, S)
                      c1(S) == generate_feature_count(r2, S)
                      c2(S) == generate_feature_metric(r2, S)
                      c5(S) == Objective(rest.eqv, S)
                      c6(S) == Objective(rest.eqb, S)
                      c8(S) == generate_package_count(r2, S, cl.specm)
                      m7 == minimize(s0, c7)
                      m3 == minimize(m7, c3)
                      m4 == minimize(m3, c4)
                      m1 == minimize(m4, c1)
                      m2 == minimize(m1, c2)
                      m5 == minimize(m2, c5)
                      m6 == minimize(m5, c6)
                  IN minimize(m6, c8)))

\* stripfeat as it would be if it kept the '[fstr]' suffix
stripfeat_keep(sol) == sol

stripfeat(sol) == [sol EXCEPT !.fs = <<>>]

\* sorted(map(stripfeat, psolution))
clean_sorted(S) == SortKeyList([i \in 1..Len(KeySeq(S)) |-> stripfeat(KeySeq(S)[i])])

solve(r, specs, len0) ==
    With(get_dists(r, specs),
         LAMBDA gd :
           IF gd.exc # "" THEN [exc |-> gd.exc, sols |-> {}, empty |-> FALSE]
           ELSE IF gd.dists = {} /\ gd.unsat = NoName
           THEN [exc |-> "", sols |-> {{}}, empty |-> TRUE]
           ELSE With(Resolve(Restrict(r.index, gd.dists), TRUE, TRUE),
                     LAMBDA r2 :
                       IF ~gen_clauses_ok(r2)
                       THEN [exc |-> "KeyError", sols |-> {}, empty |-> FALSE]
                       ELSE With(sat(r2, specs),
                                 LAMBDA s0 :
                                   IF s0 = {}
                                   THEN [exc |-> IF /\ gd.unsat # NoName
                                                    /\ IsFeatName(gd.unsat)
                                                    /\ FeatOf(gd.unsat) \in DOMAIN r2.trackers
                                                 THEN "KeyError" ELSE "Unsatisfiable",
                                         sols |-> {}, empty |-> FALSE]
                                   ELSE IF gd.new_specs_none
                                   THEN [exc |-> "TypeError", sols |-> {}, empty |-> FALSE]
                                   ELSE [exc |-> "",
                                         sols |-> Cascade(r2, s0,
                                                     Classify(r2, specs \o gd.new_specs, len0)),
                                         empty |-> FALSE])))

\* the alternate-solution loop: the solutions that tie on every objective,
\* each new one not a superset of the ones already listed, nsol capped
MaxSolutions == 10

\* every solution is listed in T or excluded by the clause of a listed one
Exhausted(sols, T) == \A S \in sols \ T : \E U \in T : U \subseteq S /\ U # S

\* psolutions as it would be if the loop went on until sat found nothing
psolutions_nocap(sols) == {T \in SUBSET sols : T # {} /\ Exhausted(sols, T)}

psolutions(sols) ==
    {T \in SUBSET sols :
        /\ T # {}
        /\ Cardinality(T) <= MaxSolutions
        /\ Exhausted(sols, T) \/ Cardinality(T) = MaxSolutions}

\* the calls of C.sat the loop makes when it lists T: one for every solution
\* listed after the first, and the one that finds nothing or finds the
\* solution that makes nsol exceed the cap
alt_sat_calls(sols, T) == (Cardinality(T) - 1) + 1

(***************************************************************************)
(* Install/remove planner.                                                 *)
(***************************************************************************)
TripleSpec(r, fkey) ==
    MSExact(package_triple(r, fkey)[1], package_triple(r, fkey)[2],
            package_triple(r, fkey)[3])

\* get_: the names reachable from name through the dependencies of every
\* artifact of a group
RECURSIVE get_(_, _, _)
get_(r, todo, snames) ==
    IF todo = {} THEN snames
    ELSE LET name == CHOOSE n \in todo : TRUE
             deps == UNION {{ms.name : ms \in Range(ms_depends(r, fn))} :
                              fn \in Range(groups_get(r, name))}
         IN get_(r, (todo \cup deps) \ (snames \cup {name}), snames \cup {name})

bad_installed(r, installed, new_specs) ==
    LET xtra == SeqFilter(installed, Range(installed) \ DOMAIN r.index)
        dists == Range(installed) \cap DOMAIN r.index
        inidx == SeqFilter(installed, dists)
        specs == [i \in DOMAIN inidx |-> TripleSpec(r, inidx[i])]
    IN IF installed = <<>> THEN [nolimit |-> TRUE, limit |-> {}, preserve |-> <<>>]
       ELSE With(sat(Resolve(Restrict(r.index, dists), TRUE, TRUE), specs) # {},
                 LAMBDA solution :
                   IF solution /\ xtra = <<>>
                   THEN [nolimit |-> TRUE, limit |-> {}, preserve |-> <<>>]
                   ELSE With(get_(r, {new_specs[i].name : i \in DOMAIN new_specs}, {}),
                             LAMBDA snames :
                               IF \/ xtra # <<>>
                                  \/ ~(\/ solution
                                       \/ \A i \in DOMAIN specs : specs[i].name \in snames)
                               THEN [nolimit |-> FALSE,
                                     limit |-> {specs[i].name : i \in DOMAIN specs}
                                                 \cap snames,
                                     preserve |-> SeqFilter(installed,
                                                     {fn \in Range(installed) :
                                                        package_name(r, fn) \notin snames})]
                               ELSE [nolimit |-> TRUE, limit |-> {}, preserve |-> xtra]))

restore_bad(r, pkgs, preserve) ==
    pkgs \o SeqFilter(preserve,
                {p \in Range(preserve) :
                   package_name(r, p) \notin {package_name(r, pkgs[i]) : i \in DOMAIN pkgs}})

install_specs(r, specs, installed, update_deps) ==
    With(bad_installed(r, installed, specs),
         LAMBDA bi :
           LET snames == {specs[i].name : i \in DOMAIN specs}
               keep == {pkg \in Range(installed) :
                          /\ pkg \in DOMAIN r.index
                          /\ package_name(r, pkg) \notin snames
                          /\ bi.nolimit \/ package_name(r, pkg) \in bi.limit}
               kept == SeqFilter(installed, keep)
           IN [specs |-> specs \o [i \in DOMAIN kept |->
                            IF update_deps
                            THEN WithTarget(MSName(package_name(r, kept[i])), kept[i])
                            ELSE TripleSpec(r, kept[i])],
               preserve |-> bi.preserve])

\* RemovalSpec as it would be without the '@ @' version and build
RemovalSpec_any(name) == MS(name, 1, "", 0, 0, TRUE, NoKey)

RemovalSpec(name) == MS(name, 3, "", AtVer, AtVer, TRUE, NoKey)

\* remove_specs as it would be without the '>=ver' lower bound
remove_specs_nobound(r, names, installed) ==
    LET specs == [i \in DOMAIN names |-> RemovalSpec(names[i])]
        snames == Range(names)
        others == SeqFilter(installed,
                            {pkg \in Range(installed) : package_name(r, pkg) \notin snames})
    IN IF ~bad_installed(r, installed, specs).nolimit
       THEN [specs |-> specs, preserve |-> others]
       ELSE [specs |-> specs \o [i \in DOMAIN others |->
                        MS(package_name(r, others[i]), 1, "", 0, 0, TRUE, others[i])],
             preserve |-> <<>>]

remove_specs(r, names, installed) ==
    LET specs == [i \in DOMAIN names |-> RemovalSpec(names[i])]
        snames == Range(names)
        others == SeqFilter(installed,
                            {pkg \in Range(installed) : package_name(r, pkg) \notin snames})
    IN IF ~bad_installed(r, installed, specs).nolimit
       THEN [specs |-> specs, preserve |-> others]
       ELSE [specs |-> specs \o [i \in DOMAIN others |->
                        MS(package_name(r, others[i]), 2, "ge",
                           package_triple(r, others[i])[2], 0, TRUE, others[i])],
             preserve |-> <<>>]

IsConda(ms) == ms.name = "conda" /\ ms.strictness = 1 /\ ~ms.optional /\ ms.target = NoKey

\* explicit as it would be without sorted()
explicit_unsorted(r, specs) ==
    LET fn == to_filename(specs[1])
        deps == ms_depends(r, fn)
        one == [i \in DOMAIN deps |-> to_filename(deps[i])] \o <<fn>>
        listed == SeqFilter(specs, {m \in Range(specs) : ~IsConda(m)})
        many == [i \in DOMAIN listed |-> to_filename(listed[i])]
    IN IF Len(specs) = 1
       THEN IF fn = NoKey \/ fn \notin DOMAIN r.index \/ NoKey \in Range(one)
            THEN [none |-> TRUE, res |-> <<>>]
            ELSE [none |-> FALSE, res |-> one]
       ELSE IF NoKey \in Range(many) THEN [none |-> TRUE, res |-> <<>>]
            ELSE [none |-> FALSE, res |-> many]

\* explicit(specs): none when it returns None
explicit(r, specs) ==
    LET fn == to_filename(specs[1])
        deps == ms_depends(r, fn)
        one == [i \in DOMAIN deps |-> to_filename(deps[i])] \o <<fn>>
        listed == SeqFilter(specs, {m \in Range(specs) : ~IsConda(m)})
        many == [i \in DOMAIN listed |-> to_filename(listed[i])]
    IN IF Len(specs) = 1
       THEN IF fn = NoKey \/ fn \notin DOMAIN r.index \/ NoKey \in Range(one)
            THEN [none |-> TRUE, res |-> <<>>]
            ELSE [none |-> FALSE, res |-> SortKeyList(one)]
       ELSE IF NoKey \in Range(many) THEN [none |-> TRUE, res |-> <<>>]
            ELSE [none |-> FALSE, res |-> SortKeyList(many)]

(***************************************************************************)
(* dependency_sort(must_have).  must_have maps package names to dists, a   *)
(* dist being an fkey without its '.tar.bz2'.  toposort is not part of     *)
(* this module of the program: it is taken to return the keys of the       *)
(* digraph and the names they depend on, every name after the names it     *)
(* depends on when the digraph has no cycle, and in any order when it has. *)
(***************************************************************************)
Dist(k) == <<k.n, k.v, k.b>>

\* value + '.tar.bz2'
DistFkey(value) == Key(value[1], value[2], value[3])

lookup(r, value) ==
    {ms_depends(r, DistFkey(value))[i].name : i \in DOMAIN ms_depends(r, DistFkey(value))}

digraph_of(r, must_have) == [key \in DOMAIN must_have |-> lookup(r, must_have[key])]

\* the keys of the digraph that key reaches through the keys it depends on
RECURSIVE Descendants(_, _, _)
Descendants(digraph, todo, seen) ==
    IF todo = {} THEN seen
    ELSE LET n == CHOOSE x \in todo : TRUE
             nxt == IF n \in DOMAIN digraph THEN digraph[n] \ {n} ELSE {}
         IN Descendants(digraph, (todo \cup nxt) \ (seen \cup {n}), seen \cup {n})

Acyclic(digraph) ==
    \A key \in DOMAIN digraph :
        key \notin Descendants(digraph, digraph[key] \ {key}, {})

Position(s, x) == CHOOSE i \in DOMAIN s : s[i] = x

toposort(digraph) ==
    LET items == DOMAIN digraph \cup UNION {digraph[key] : key \in DOMAIN digraph}
    IN {s \in [1..Cardinality(items) -> items] :
          /\ Range(s) = items
          /\ Acyclic(digraph) =>
                \A key \in DOMAIN digraph : \A dep \in digraph[key] \ {key} :
                    Position(s, dep) < Position(s, key)}

\* dependency_sort as it would be if no sorted key were a key of must_have:
\* the values as the mapping lists them
dependency_sort_leftover(r, must_have) ==
    {[i \in DOMAIN NameSeq(DOMAIN must_have) |-> must_have[NameSeq(DOMAIN must_have)[i]]]}

\* the lists dependency_sort can return, one for every list toposort can
dependency_sort(r, must_have) ==
    {LET taken == SeqFilter(sorted_keys, DOMAIN must_have)
         left == NameSeq(DOMAIN must_have \ Range(sorted_keys))
     IN [i \in DOMAIN taken |-> must_have[taken[i]]]
        \o [i \in DOMAIN left |-> must_have[left[i]]] :
     sorted_keys \in toposort(digraph_of(r, must_have))}

(***************************************************************************)
(* Package: the sortable view of a record.  A comparison returns "True"    *)
(* or "False" or raises "TypeError".  Versions are numbers here, so        *)
(* normalized_version, which is not part of this module of the program,    *)
(* is the order of the numbers.                                            *)
(***************************************************************************)
Package(fn, info) ==
    [fn |-> fn, name |-> info.name, norm_version |-> info.version,
     build_number |-> info.build_number, build |-> info.build]

PackageTuple(p) == <<p.norm_version, p.build_number, p.build>>

Bool(b) == IF b THEN "True" ELSE "False"
Negation(x) == IF x = "TypeError" THEN x ELSE Bool(x = "False")

\* __lt__ as it would be if it left the build string out
Package_lt_nobuild(self, other) ==
    IF self.name # other.name THEN "TypeError"
    ELSE Bool(\/ self.norm_version < other.norm_version
              \/ /\ self.norm_version = other.norm_version
                 /\ self.build_number < other.build_number)

Package_lt(self, other) ==
    IF self.name # other.name THEN "TypeError"
    ELSE Bool(VKeyLT(PackageTuple(self), PackageTuple(other)))

Package_eq(self, other) ==
    IF self.name # other.name THEN "False"
    ELSE Bool(PackageTuple(self) = PackageTuple(other))

Package_ne(self, other) == Negation(Package_eq(self, other))
Package_gt(self, other) == Package_lt(other, self)
Package_le(self, other) == Negation(Package_lt(other, self))
Package_ge(self, other) == Negation(Package_lt(self, other))

(***************************************************************************)
(* The indexes.  An index is a snapshot of a channel: any subset of the    *)
(* records of one of the channels below, so that a dependency may name a   *)
(* package, or a version, that the snapshot lacks.                         *)
(***************************************************************************)
a1 == Key("a", 1, 0)
a2 == Key("a", 2, 0)
b1 == Key("b", 1, 0)
b2 == Key("b", 2, 0)
c1 == Key("c", 1, 0)
d1 == Key("d", 1, 0)
t1 == Key("t", 1, 0)

\* plain packages: a dependency cycle a1 -> c1 -> a1, an exact dependency
Channel1 ==
    [k \in {a1, a2, b2, c1} |->
       CASE k = a1 -> Rec(k, <<MSName("c"), MSName("b")>>, {}, {}, NoWfd)
         [] k = a2 -> Rec(k, <<>>, {}, {}, NoWfd)
         [] k = b2 -> Rec(k, <<MSExact("c", 1, 0)>>, {}, {}, NoWfd)
         [] k = c1 -> Rec(k, <<MSEq("a", 1)>>, {}, {}, NoWfd)]

\* a feature f: t1 tracks it, a2 has with_features_depends for it; d1
\* depends on nothing and nothing depends on it
Packages2 ==
    [k \in {a1, a2, b1, b2, c1, d1, t1} |->
       CASE k = a1 -> Rec(k, <<>>, {}, {}, NoWfd)
         [] k = a2 -> Rec(k, <<MSEq("b", 1)>>, {}, {}, [x \in {"f"} |-> <<MSEq("b", 2)>>])
         [] k = b1 -> Rec(k, <<MSName("c")>>, {}, {}, NoWfd)
         [] k = b2 -> Rec(k, <<>>, {}, {}, NoWfd)
         [] k = c1 -> Rec(k, <<>>, {}, {}, NoWfd)
         [] k = d1 -> Rec(k, <<>>, {}, {}, NoWfd)
         [] k = t1 -> Rec(k, <<MSEq("a", 2)>>, {}, {"f"}, NoWfd)]

Channel2 == Restrict(Packages2, {a1, a2, b1, b2, c1, t1})

\* a channel that lacks what b1 depends on
Channel3 == Restrict(Packages2, {a1, a2, b1, d1, t1})

Channels == {Channel1, Channel2, Channel3}

\* a snapshot lacks at most MaxMissing records of its channel
MaxMissing == 1

Indexes ==
    UNION {{Restrict(ch, D) : D \in {E \in SUBSET (DOMAIN ch) :
                                       Cardinality(DOMAIN ch \ E) <= MaxMissing}} :
           ch \in Channels}

(***************************************************************************)
(* The requests.                                                           *)
(***************************************************************************)
MaxSpecs == 2
MaxInstalled == 2

UserSpecs ==
    {MSName("a"), MSEq("a", 1), MSExact("a", 2, 0), MSExact("b", 2, 0),
     MSName("c"), MSName("@f")}

SeqsUpTo(S, n) == UNION {[1..m -> S] : m \in 0..n}

SpecLists == SeqsUpTo(UserSpecs, MaxSpecs)

RemoveLists == {<<"a">>, <<"b">>, <<"c">>, <<"a", "b">>}

\* the environments a session may start from: sorted lists of the keys of
\* the channels, also keys the index lacks and two artifacts of one name
StartKeys == {a1, a2, d1}

StartEnvs == {env \in SeqsUpTo(StartKeys, MaxInstalled) :
                \A i \in 1..(Len(env) - 1) : KeyLT(env[i], env[i + 1])}

(***************************************************************************)
(* State: the Resolve object r, the installed list of the environment,     *)
(* the last call with its outcome, the number of calls made so far, and    *)
(* the call before, which the caller has kept aside with the settings it   *)
(* was made under.                                                         *)
(***************************************************************************)
VARIABLES r, installed, last, calls, prev

vars == <<r, installed, last, calls, prev, channel_priority>>

\* a session makes at most MaxCalls calls
MaxCalls == 2

NoCall ==
    [op |-> "none", specs |-> <<>>, names |-> <<>>, installed |-> <<>>,
     update_deps |-> TRUE, exc |-> "", none |-> FALSE, pkgs |-> <<>>,
     sel |-> {}, solved |-> <<>>, preserve |-> <<>>, empty |-> FALSE,
     returnall |-> FALSE, all |-> {}, sat_calls |-> 0, must_have |-> <<>>,
     args |-> <<>>, out |-> <<>>]

\* no call has been kept aside
NoPrev == [call |-> NoCall, channel_priority |-> FALSE, index |-> [x \in {} |-> 0]]

\* the records of these channels carry no priority: version_key orders
\* them the same way under either setting
Init ==
    /\ \E index \in Indexes : r = Resolve(index, FALSE, FALSE)
    /\ installed \in StartEnvs
    /\ last = NoCall
    /\ calls = 0
    /\ prev = NoPrev
    /\ channel_priority = FALSE

\* install(specs, installed, update_deps, returnall), called on the current
\* environment; with nothing installed it is solve(specs, len0, returnall)
Install(specs, update_deps) ==
    /\ last.op = "none"
    /\ calls < MaxCalls
    /\ calls' = calls + 1
    /\ UNCHANGED <<r, installed, prev, channel_priority>>
    /\ \E plan \in {install_specs(r, specs, installed, update_deps)} :
       \E res \in {solve(r, plan.specs, Len(specs))} :
       LET call == [NoCall EXCEPT !.op = "install", !.specs = specs,
                       !.installed = installed, !.update_deps = update_deps,
                       !.solved = plan.specs, !.preserve = plan.preserve]
       IN \/ /\ res.exc # ""
             /\ \E returnall \in BOOLEAN :
                  last' = [call EXCEPT !.returnall = returnall, !.exc = res.exc]
          \/ /\ res.exc = ""
             /\ \E S \in res.sols :
                  last' = [call EXCEPT
                              !.pkgs = restore_bad(r, clean_sorted(S), plan.preserve),
                              !.sel = S, !.empty = res.empty]
          \/ /\ res.exc = ""
             /\ IF plan.preserve # <<>>
                THEN last' = [call EXCEPT !.returnall = TRUE, !.exc = "TypeError"]
                ELSE \E T \in psolutions(res.sols) :
                       last' = [call EXCEPT !.returnall = TRUE,
                                            !.all = {clean_sorted(S) : S \in T},
                                            !.sat_calls = IF res.empty THEN 0
                                                          ELSE alt_sat_calls(res.sols, T),
                                            !.empty = res.empty]

\* remove(specs, installed), called on the current environment
Remove(names) ==
    /\ last.op = "none"
    /\ calls < MaxCalls
    /\ calls' = calls + 1
    /\ UNCHANGED <<r, installed, prev, channel_priority>>
    /\ \E plan \in {remove_specs(r, names, installed)} :
       \E res \in {solve(r, plan.specs, Len(plan.specs))} :
       LET call == [NoCall EXCEPT !.op = "remove", !.names = names,
                       !.installed = installed, !.solved = plan.specs,
                       !.preserve = plan.preserve]
       IN \/ /\ res.exc # ""
             /\ last' = [call EXCEPT !.exc = res.exc]
          \/ /\ res.exc = ""
             /\ \E S \in res.sols :
                  last' = [call EXCEPT
                              !.pkgs = restore_bad(r, clean_sorted(S), plan.preserve),
                              !.sel = S, !.empty = res.empty]

\* explicit(specs)
Explicit(specs) ==
    /\ last.op = "none"
    /\ calls < MaxCalls
    /\ calls' = calls + 1
    /\ UNCHANGED <<r, installed, prev, channel_priority>>
    /\ \E res \in {explicit(r, specs)} :
         last' = [NoCall EXCEPT !.op = "explicit", !.specs = specs,
                     !.installed = installed, !.none = res.none, !.pkgs = res.res]

\* the caller takes the outcome: the list an install or a remove returned
\* becomes the environment; an exception or a list of alternatives leaves
\* the environment as it was
Return ==
    /\ last.op # "none"
    /\ installed' = IF last.op \in {"install", "remove"} /\ last.exc = "" /\ ~last.returnall
                    THEN last.pkgs ELSE installed
    /\ last' = NoCall
    /\ UNCHANGED <<r, calls, prev, channel_priority>>

\* update_deps is read only in the loop over installed
UpdateDeps == IF installed = <<>> THEN {TRUE} ELSE BOOLEAN

Next ==
    \/ \E specs \in SpecLists, update_deps \in UpdateDeps : Install(specs, update_deps)
    \/ \E names \in RemoveLists : Remove(names)
    \/ \E specs \in SpecLists : Explicit(specs)
    \/ Return

Spec == Init /\ [][Next]_vars

(***************************************************************************)
(* Channel priority.  A caller holds one Resolve, sets the priority of     *)
(* records of its index and the channel_priority setting between calls,    *)
(* and calls install(specs) on an empty environment each time.             *)
(***************************************************************************)
b3 == Key("b", 3, 0)

\* two versions of a; each version of b needs one version of a
Channel4 ==
    [k \in {a1, a2, b1, b2, b3} |->
       CASE k = a1 -> Rec(k, <<>>, {}, {}, NoWfd)
         [] k = a2 -> Rec(k, <<>>, {}, {}, NoWfd)
         [] k = b1 -> Rec(k, <<MSEq("a", 1)>>, {}, {}, NoWfd)
         [] k = b2 -> Rec(k, <<MSEq("a", 2)>>, {}, {}, NoWfd)
         [] k = b3 -> Rec(k, <<MSEq("a", 2)>>, {}, {}, NoWfd)]

MaxPriority == 2

Priorities == 0..MaxPriority

\* the records whose priority the caller sets
PriorityKeys == {a1, a2}

PrioritySpecLists == SeqsUpTo({MSName("a"), MSName("b"), MSGe("a", 1)}, MaxSpecs)

InitPriority ==
    /\ r = Resolve(Channel4, FALSE, FALSE)
    /\ installed = <<>>
    /\ last = NoCall
    /\ calls = 0
    /\ prev = NoPrev
    /\ channel_priority \in BOOLEAN

\* rec['priority'] = p
SetPriority(fkey, p) ==
    /\ last.op = "none"
    /\ fkey \in DOMAIN r.index
    /\ r.index[fkey].priority # p
    /\ r' = [r EXCEPT !.index[fkey].priority = p]
    /\ UNCHANGED <<installed, last, calls, prev, channel_priority>>

\* config.channel_priority = b
SetChannelPriority(b) ==
    /\ last.op = "none"
    /\ channel_priority # b
    /\ channel_priority' = b
    /\ UNCHANGED <<r, installed, last, calls, prev>>

\* the caller keeps the outcome aside and leaves the environment empty
Discard ==
    /\ last.op # "none"
    /\ prev' = [call |-> last, channel_priority |-> channel_priority, index |-> r.index]
    /\ last' = NoCall
    /\ UNCHANGED <<r, installed, calls, channel_priority>>

NextPriority ==
    \/ \E fkey \in PriorityKeys, p \in Priorities : SetPriority(fkey, p)
    \/ \E b \in BOOLEAN : SetChannelPriority(b)
    \/ \E specs \in PrioritySpecLists : Install(specs, TRUE)
    \/ Discard

SpecPriority == InitPriority /\ [][NextPriority]_vars

(***************************************************************************)
(* Optional specs.  A caller calls install(S + [o]) on an empty            *)
(* environment, o an optional spec.                                        *)
(***************************************************************************)
OptionalSpecs ==
    {Optional(MSName("a")), Optional(MSEq("a", 1)), Optional(MSExact("a", 2, 0)),
     Optional(MSName("c")), Optional(MSName("@f"))}

MandatoryLists == SeqsUpTo(UserSpecs, MaxSpecs - 1)

InitOptional ==
    /\ \E index \in Indexes : r = Resolve(index, FALSE, FALSE)
    /\ installed = <<>>
    /\ last = NoCall
    /\ calls = 0
    /\ prev = NoPrev
    /\ channel_priority = FALSE

NextOptional ==
    \/ \E specs \in MandatoryLists, o \in OptionalSpecs : Install(Append(specs, o), TRUE)
    \/ Discard

SpecOptional == InitOptional /\ [][NextOptional]_vars

(***************************************************************************)
(* Circular dependencies.  c, d and m depend on one another in a cycle; d  *)
(* also depends on a, which is outside the cycle and has a version whose   *)
(* dependency the channel lacks.                                           *)
(***************************************************************************)
m1 == Key("m", 1, 0)

Channel5 ==
    [k \in {a1, a2, c1, d1, m1} |->
       CASE k = a1 -> Rec(k, <<>>, {}, {}, NoWfd)
         [] k = a2 -> Rec(k, <<MSName("b")>>, {}, {}, NoWfd)
         [] k = c1 -> Rec(k, <<MSName("d")>>, {}, {}, NoWfd)
         [] k = d1 -> Rec(k, <<MSName("m"), MSName("a")>>, {}, {}, NoWfd)
         [] k = m1 -> Rec(k, <<MSName("c")>>, {}, {}, NoWfd)]

CycleIndexes ==
    {Restrict(Channel5, D) : D \in {E \in SUBSET (DOMAIN Channel5) :
                                       Cardinality(DOMAIN Channel5 \ E) <= MaxMissing}}

CycleSpecLists == SeqsUpTo({MSName("a"), MSName("c"), MSName("d"), MSName("m")}, MaxSpecs)

InitCycle ==
    /\ \E index \in CycleIndexes : r = Resolve(index, FALSE, FALSE)
    /\ installed = <<>>
    /\ last = NoCall
    /\ calls = 0
    /\ prev = NoPrev
    /\ channel_priority = FALSE

\* valid(x, filter) and then valid(y, filter) on one filter, empty at first
Valid(x, y) ==
    /\ last.op = "none"
    /\ calls < MaxCalls
    /\ calls' = calls + 1
    /\ UNCHANGED <<r, installed, prev, channel_priority>>
    /\ \E v1 \in {valid(r, x, EmptyDict)} :
       \E v2 \in {valid(r, y, v1.filter)} :
          last' = [NoCall EXCEPT !.op = "valid", !.args = <<x, y>>,
                      !.out = [vals |-> <<v1.val, v2.val>>, filter |-> v2.filter]]

NextCycle ==
    \/ \E specs \in CycleSpecLists : Install(specs, TRUE)
    \/ \E x \in DOMAIN r.index, y \in DOMAIN r.index : Valid(x, y)
    \/ Discard

SpecCycle == InitCycle /\ [][NextCycle]_vars

(***************************************************************************)
(* Newest versions.  Three channels of packages a and b without features:  *)
(* in the first the newest b is broken (it depends on c, which no channel  *)
(* has) and the older a needs it, in the second the newer versions of b    *)
(* need the older a, in the third the middle version of a is broken and    *)
(* each b needs one of the others.                                         *)
(***************************************************************************)
a3 == Key("a", 3, 0)

NewestChannels ==
    {[k \in {a1, a2, b1, b2, b3} |->
        CASE k = a1 -> Rec(k, <<MSEq("b", 3)>>, {}, {}, NoWfd)
          [] k = a2 -> Rec(k, <<MSName("b")>>, {}, {}, NoWfd)
          [] k = b1 -> Rec(k, <<>>, {}, {}, NoWfd)
          [] k = b2 -> Rec(k, <<>>, {}, {}, NoWfd)
          [] k = b3 -> Rec(k, <<MSName("c")>>, {}, {}, NoWfd)],
     [k \in {a1, a2, b1, b2, b3} |->
        CASE k = a1 -> Rec(k, <<>>, {}, {}, NoWfd)
          [] k = a2 -> Rec(k, <<>>, {}, {}, NoWfd)
          [] k = b1 -> Rec(k, <<MSEq("a", 2)>>, {}, {}, NoWfd)
          [] k = b2 -> Rec(k, <<MSEq("a", 1)>>, {}, {}, NoWfd)
          [] k = b3 -> Rec(k, <<MSEq("a", 1)>>, {}, {}, NoWfd)],
     [k \in {a1, a2, a3, b1, b2} |->
        CASE k = a1 -> Rec(k, <<>>, {}, {}, NoWfd)
          [] k = a2 -> Rec(k, <<MSName("c")>>, {}, {}, NoWfd)
          [] k = a3 -> Rec(k, <<>>, {}, {}, NoWfd)
          [] k = b1 -> Rec(k, <<MSEq("a", 3)>>, {}, {}, NoWfd)
          [] k = b2 -> Rec(k, <<MSEq("a", 1)>>, {}, {}, NoWfd)]}

NewestIndexes ==
    UNION {{Restrict(ch, D) : D \in {E \in SUBSET (DOMAIN ch) :
                                       Cardinality(DOMAIN ch \ E) <= MaxMissing}} :
           ch \in NewestChannels}

NewestSpecLists == SeqsUpTo({MSName("a"), MSName("b"), MSGe("a", 2), MSEq("b", 1)}, MaxSpecs)

InitNewest ==
    /\ \E index \in NewestIndexes : r = Resolve(index, FALSE, FALSE)
    /\ installed = <<>>
    /\ last = NoCall
    /\ calls = 0
    /\ prev = NoPrev
    /\ channel_priority = FALSE

NextNewest ==
    \/ \E specs \in NewestSpecLists : Install(specs, TRUE)
    \/ Discard

SpecNewest == InitNewest /\ [][NextNewest]_vars

(***************************************************************************)
(* Features.  Each version of b has a plain artifact and one built with    *)
(* feature f, of the same version and build number (the build strings      *)
(* differ).  t tracks f.  a needs b, and its newer version needs t as      *)
(* well.                                                                   *)
(***************************************************************************)
b1f == Key("b", 1, 1)
b2f == Key("b", 2, 1)

Channel6 ==
    [k \in {a1, a2, b1, b1f, b2, b2f, t1} |->
       CASE k = a1 -> Rec(k, <<MSName("b")>>, {}, {}, NoWfd)
         [] k = a2 -> Rec(k, <<MSName("b"), MSName("t")>>, {}, {}, NoWfd)
         [] k = b1 -> Rec(k, <<>>, {}, {}, NoWfd)
         [] k = b1f -> [Rec(k, <<>>, {"f"}, {}, NoWfd) EXCEPT !.build_number = 0]
         [] k = b2 -> Rec(k, <<>>, {}, {}, NoWfd)
         [] k = b2f -> [Rec(k, <<>>, {"f"}, {}, NoWfd) EXCEPT !.build_number = 0]
         [] k = t1 -> Rec(k, <<>>, {}, {"f"}, NoWfd)]

FeatureIndexes ==
    {Restrict(Channel6, D) : D \in {E \in SUBSET (DOMAIN Channel6) :
                                      Cardinality(DOMAIN Channel6 \ E) <= MaxMissing}}

FeatureSpecLists ==
    SeqsUpTo({MSName("a"), MSEq("a", 1), MSName("b"), MSName("t"), MSName("@f")}, MaxSpecs)

InitFeature ==
    /\ \E index \in FeatureIndexes : r = Resolve(index, FALSE, FALSE)
    /\ installed = <<>>
    /\ last = NoCall
    /\ calls = 0
    /\ prev = NoPrev
    /\ channel_priority = FALSE

NextFeature ==
    \/ \E specs \in FeatureSpecLists : Install(specs, TRUE)
    \/ Discard

SpecFeature == InitFeature /\ [][NextFeature]_vars

(***************************************************************************)
(* Many solutions.  The same record of a is in the channel under several   *)
(* file names, and so is the record of b, which a needs: every pair of     *)
(* them is as good a solution as any other.  t tracks a feature nothing    *)
(* is built with.                                                          *)
(***************************************************************************)
MaxTwins == 3

TwinsOfA == {Key("a", 1, i) : i \in 0..MaxTwins}
TwinsOfB == {Key("b", 1, i) : i \in 0..(MaxTwins - 1)}

Channel7 ==
    [k \in TwinsOfA \cup TwinsOfB \cup {t1} |->
       IF k \in TwinsOfA THEN [Rec(a1, <<MSName("b")>>, {}, {}, NoWfd) EXCEPT !.build = k.b]
       ELSE IF k \in TwinsOfB THEN [Rec(b1, <<>>, {}, {}, NoWfd) EXCEPT !.build = k.b]
       ELSE Rec(k, <<>>, {}, {"f"}, NoWfd)]

ManyIndexes ==
    {Restrict(Channel7, D) : D \in {E \in SUBSET (DOMAIN Channel7) :
                                      Cardinality(DOMAIN Channel7 \ E) <= MaxMissing}}

ManySpecLists == SeqsUpTo({MSName("a"), MSName("b"), MSExact("a", 1, 0), MSName("t")}, MaxSpecs)

InitMany ==
    /\ \E index \in ManyIndexes : r = Resolve(index, FALSE, FALSE)
    /\ installed = <<>>
    /\ last = NoCall
    /\ calls = 0
    /\ prev = NoPrev
    /\ channel_priority = FALSE

NextMany == \E specs \in ManySpecLists : Install(specs, TRUE)

SpecMany == InitMany /\ [][NextMany]_vars

(***************************************************************************)
(* Sorting by dependency: a channel without and with a cycle, and the      *)
(* calls of dependency_sort.                                               *)
(***************************************************************************)
m2 == Key("m", 2, 0)

\* a needs b (or c), b needs c, c needs d, d needs m; the newer m needs a
Channel8 ==
    [k \in {a1, a2, b1, c1, d1, m1, m2} |->
       CASE k = a1 -> Rec(k, <<MSName("b"), MSName("m")>>, {}, {}, NoWfd)
         [] k = a2 -> Rec(k, <<MSName("c")>>, {}, {}, NoWfd)
         [] k = b1 -> Rec(k, <<MSName("c")>>, {}, {}, NoWfd)
         [] k = c1 -> Rec(k, <<MSName("d"), MSName("m")>>, {}, {}, NoWfd)
         [] k = d1 -> Rec(k, <<MSName("m")>>, {}, {}, NoWfd)
         [] k = m1 -> Rec(k, <<>>, {}, {}, NoWfd)
         [] k = m2 -> Rec(k, <<MSName("a")>>, {}, {}, NoWfd)]

SortIndexes ==
    {Restrict(Channel8, D) : D \in {E \in SUBSET (DOMAIN Channel8) :
                                      Cardinality(DOMAIN Channel8 \ E) <= MaxMissing}}

\* the mappings from some names to a dist of that name
SortInputs ==
    UNION {{f \in [N -> {Dist(k) : k \in DOMAIN Channel8}] : \A n \in N : f[n][1] = n} :
           N \in SUBSET {k.n : k \in DOMAIN Channel8}}

InitSort ==
    /\ \E index \in SortIndexes : r = Resolve(index, FALSE, FALSE)
    /\ installed = <<>>
    /\ last = NoCall
    /\ calls = 0
    /\ prev = NoPrev
    /\ channel_priority = FALSE

\* dependency_sort(must_have); ms_depends raises KeyError for a dist the
\* index lacks
DependencySort(must_have) ==
    /\ last.op = "none"
    /\ calls < MaxCalls
    /\ calls' = calls + 1
    /\ UNCHANGED <<r, installed, prev, channel_priority>>
    /\ LET call == [NoCall EXCEPT !.op = "dependency_sort", !.must_have = must_have]
       IN IF \E key \in DOMAIN must_have : DistFkey(must_have[key]) \notin DOMAIN r.index
          THEN last' = [call EXCEPT !.exc = "KeyError"]
          ELSE \E res \in dependency_sort(r, must_have) : last' = [call EXCEPT !.pkgs = res]

NextSort == \E must_have \in SortInputs : DependencySort(must_have)

SpecSort == InitSort /\ [][NextSort]_vars

(***************************************************************************)
(* Comparing packages: Packages of two names, each in two versions, two    *)
(* build numbers and two build strings.                                    *)
(***************************************************************************)
MaxVersion == 2
MaxBuild == 1

Packages ==
    {Package(Key(n, v, b), [Rec(Key(n, v, b), <<>>, {}, {}, NoWfd) EXCEPT !.build_number = bn]) :
        n \in {"a", "b"}, v \in 1..MaxVersion, b \in 0..MaxBuild, bn \in 0..MaxBuild}

InitPackage ==
    /\ r = Resolve(Channel1, FALSE, FALSE)
    /\ installed = <<>>
    /\ last = NoCall
    /\ calls = 0
    /\ prev = NoPrev
    /\ channel_priority = FALSE

\* a < b, a <= b, a == b, a != b, a > b, a >= b
Compare(a, b) ==
    /\ last.op = "none"
    /\ calls < MaxCalls
    /\ calls' = calls + 1
    /\ UNCHANGED <<r, installed, prev, channel_priority>>
    /\ last' = [NoCall EXCEPT !.op = "compare", !.args = <<a, b>>,
                   !.out = [lt |-> Package_lt(a, b), le |-> Package_le(a, b),
                            eq |-> Package_eq(a, b), ne |-> Package_ne(a, b),
                            gt |-> Package_gt(a, b), ge |-> Package_ge(a, b)]]

NextPackage == \E a \in Packages, b \in Packages : Compare(a, b)

SpecPackage == InitPackage /\ [][NextPackage]_vars

(***************************************************************************)
(* Comparing and hashing MatchSpecs: four spec texts, each plain, optional,*)
(* with a target, and both.                                                *)
(***************************************************************************)
MatchSpecs ==
    {[ms EXCEPT !.optional = o, !.target = t] :
        ms \in {MSName("a"), MSName("b"), MSEq("a", 1), MSExact("a", 1, 0)},
        o \in BOOLEAN, t \in {NoKey, a1}}

InitHash ==
    /\ r = Resolve(Channel1, FALSE, FALSE)
    /\ installed = <<>>
    /\ last = NoCall
    /\ calls = 0
    /\ prev = NoPrev
    /\ channel_priority = FALSE

\* a == b, hash(a), hash(b)
Hash(a, b) ==
    /\ last.op = "none"
    /\ calls < MaxCalls
    /\ calls' = calls + 1
    /\ UNCHANGED <<r, installed, prev, channel_priority>>
    /\ last' = [NoCall EXCEPT !.op = "hash", !.args = <<a, b>>,
                   !.out = [eq |-> MatchSpec_eq(a, b),
                            hash |-> <<MatchSpec_hash(a), MatchSpec_hash(b)>>]]

NextHash == \E a \in MatchSpecs, b \in MatchSpecs : Hash(a, b)

SpecHash == InitHash /\ [][NextHash]_vars

(***************************************************************************)
(* Pruning one group: a1 declares two specs for b, a2 declares none, a3    *)
(* declares one; c1 needs the b that a1 does not accept.                   *)
(***************************************************************************)
Channel9 ==
    [k \in {a1, a2, a3, b1, b2, c1} |->
       CASE k = a1 -> Rec(k, <<MSEq("b", 1), MSExact("b", 1, 0)>>, {}, {}, NoWfd)
         [] k = a2 -> Rec(k, <<>>, {}, {}, NoWfd)
         [] k = a3 -> Rec(k, <<MSName("b")>>, {}, {}, NoWfd)
         [] k = b1 -> Rec(k, <<>>, {}, {}, NoWfd)
         [] k = b2 -> Rec(k, <<>>, {}, {}, NoWfd)
         [] k = c1 -> Rec(k, <<MSEq("b", 2), MSName("a")>>, {}, {}, NoWfd)]

PruneIndexes == {Restrict(Channel9, D) : D \in SUBSET (DOMAIN Channel9)}

PruneSpecs == {MSName("a"), MSGe("a", 2), MSEq("a", 1), MSName("b"), MSName("c")}

InitPrune ==
    /\ \E index \in PruneIndexes : r = Resolve(index, FALSE, FALSE)
    /\ installed = <<>>
    /\ last = NoCall
    /\ calls = 0
    /\ prev = NoPrev
    /\ channel_priority = FALSE

\* filter_group([ms]) as get_dists first calls it: filter and snames empty
FilterGroup(ms) ==
    /\ last.op = "none"
    /\ calls < MaxCalls
    /\ find_matches(r, ms) # <<>>
    /\ calls' = calls + 1
    /\ UNCHANGED <<r, installed, prev, channel_priority>>
    /\ \E res \in {filter_group(r, <<ms>>, [filter |-> EmptyDict, snames |-> {}])} :
          last' = [NoCall EXCEPT !.op = "filter_group", !.args = <<ms>>, !.out = res]

\* touch(specs, {}) on a list of the caller; out.specs is that list afterwards
Touch(specs) ==
    /\ last.op = "none"
    /\ calls < MaxCalls
    /\ calls' = calls + 1
    /\ UNCHANGED <<r, installed, prev, channel_priority>>
    /\ \E res \in {touch(r, specs, EmptyDict)} :
          last' = [NoCall EXCEPT !.op = "touch", !.specs = specs, !.out = res]

NextPrune ==
    \/ \E ms \in PruneSpecs : FilterGroup(ms)
    \/ \E specs \in SeqsUpTo(PruneSpecs, MaxSpecs) : Touch(specs)

SpecPrune == InitPrune /\ [][NextPrune]_vars

(***************************************************************************)
(* Constructing Resolve again over the index dict of an earlier Resolve:   *)
(* the dict is the one object, so it holds the keys the first added.       *)
(***************************************************************************)
ConstructIndexes == {Restrict(Packages2, D) : D \in SUBSET (DOMAIN Packages2)}

InitConstruct ==
    /\ \E index \in ConstructIndexes : r = Resolve(index, FALSE, FALSE)
    /\ installed = <<>>
    /\ last = NoCall
    /\ calls = 0
    /\ prev = NoPrev
    /\ channel_priority = FALSE

\* Resolve(index, sort) over the dict r.index
Construct(sort) ==
    /\ calls < MaxCalls
    /\ calls' = calls + 1
    /\ r' = Resolve(r.index, sort, FALSE)
    /\ last' = [NoCall EXCEPT !.op = "construct", !.args = <<sort>>]
    /\ UNCHANGED <<installed, prev, channel_priority>>

NextConstruct == \E sort \in BOOLEAN : Construct(sort)

SpecConstruct == InitConstruct /\ [][NextConstruct]_vars

(***************************************************************************)
(* The version metrics: four versions of a, the second from a channel of   *)
(* lower priority, and two versions of b, the first in two builds.         *)
(***************************************************************************)
a4 == Key("a", 4, 0)

Channel10 ==
    [k \in {a1, a2, a3, a4, b1, b1f, b2} |->
       IF k = a2 THEN [Rec(k, <<>>, {}, {}, NoWfd) EXCEPT !.priority = 2]
       ELSE Rec(k, <<>>, {}, {}, NoWfd)]

MetricIndexes == {Restrict(Channel10, D) : D \in SUBSET (DOMAIN Channel10)}

MetricSpecs ==
    {MSName("a"), MSName("b"), MSGe("a", 2),
     WithTarget(MSName("a"), a3), WithTarget(MSName("a"), a1), WithTarget(MSName("a"), a2)}

InitMetric ==
    /\ channel_priority \in BOOLEAN
    /\ \E index \in MetricIndexes : r = Resolve(index, TRUE, FALSE)
    /\ installed = <<>>
    /\ last = NoCall
    /\ calls = 0
    /\ prev = NoPrev

\* generate_version_metrics(C, specs, include0); out.all holds the two maps
\* with their zeros
VersionMetrics(specs, include0) ==
    /\ last.op = "none"
    /\ calls < MaxCalls
    /\ calls' = calls + 1
    /\ UNCHANGED <<r, installed, prev, channel_priority>>
    /\ \E res \in {generate_version_metrics(r, specs, include0)} :
       \E full \in {generate_version_metrics(r, specs, TRUE)} :
          last' = [NoCall EXCEPT !.op = "metrics", !.specs = specs, !.args = <<include0>>,
                      !.out = [eqv |-> res.eqv, eqb |-> res.eqb, all |-> full]]

NextMetric ==
    \E specs \in SeqsUpTo(MetricSpecs, MaxSpecs), include0 \in BOOLEAN :
        VersionMetrics(specs, include0)

SpecMetric == InitMetric /\ [][NextMetric]_vars

(***************************************************************************)
(* What the properties speak of.  last records the call that has just      *)
(* ended: its arguments, the exception it raised (exc, "" when none) and   *)
(* the list it returned (pkgs; all when returnall).                        *)
(***************************************************************************)
\* solve(specs) through install: nothing installed, one list returned
Fresh == last.op = "install" /\ last.installed = <<>> /\ ~last.returnall

\* install or remove returned a list
Returned == last.op \in {"install", "remove"} /\ last.exc = "" /\ ~last.returnall

NoTwoOfOneName(pkgs) ==
    \A i, j \in DOMAIN pkgs :
        i # j => package_name(r, pkgs[i]) # package_name(r, pkgs[j])

\* some entry of pkgs matches the dependency D
Satisfied(D, pkgs) == \E G \in Range(pkgs) : G \in Range(find_matches(r, D))

\* every mandatory dependency the index declares for an entry of pkgs is
\* satisfied in pkgs
Closed(pkgs) ==
    \A F \in Range(pkgs) \cap DOMAIN r.index :
        \A D \in Range(ms_depends(r, F)) : D.optional \/ Satisfied(D, pkgs)

\* F declares a mandatory dependency on one of the names N
DependsOn(F, N) == \E D \in Range(ms_depends(r, F)) : ~D.optional /\ D.name \in N

\* the names installed reaches from F through mandatory dependencies
RECURSIVE Reach(_, _, _)
Reach(inst, todo, seen) ==
    IF todo = {} THEN seen
    ELSE LET n == CHOOSE x \in todo : TRUE
             nxt == UNION {{D.name : D \in {d \in Range(ms_depends(r, F)) : ~d.optional}} :
                             F \in {G \in Range(inst) : G.n = n}}
         IN Reach(inst, (todo \cup nxt) \ (seen \cup {n}), seen \cup {n})

TransDep(F, inst, N) == Reach(inst, {F.n}, {}) \cap N # {}

\* an installed set the index knows, one artifact per name, dependencies
\* satisfied
Consistent(inst) ==
    /\ inst # <<>>
    /\ Range(inst) \subseteq DOMAIN r.index
    /\ NoTwoOfOneName(inst)
    /\ Closed(inst)

\* the artifacts whose mandatory dependencies are recursively satisfiable:
\* the greatest set in which every member finds every mandatory dependency
RECURSIVE Satisfiable(_)
Satisfiable(V) ==
    LET V2 == {k \in V : \A D \in Range(ms_depends(r, k)) :
                  D.optional \/ Range(find_matches(r, D)) \cap V # {}}
    IN IF V2 = V THEN V ELSE Satisfiable(V2)

SomeSpecHasNoCandidate ==
    \E i \in DOMAIN last.specs :
        /\ ~last.specs[i].optional
        /\ Range(find_matches(r, last.specs[i])) \cap Satisfiable(DOMAIN r.index) = {}

\* the sets of artifacts of the index with at most one artifact per name,
\* every mandatory dependency satisfied and every mandatory spec matched
JointSolutions(specs) ==
    {S \in SUBSET {k \in DOMAIN r.index : ~IsVirtual(k)} :
        /\ \A x, y \in S : x # y => x.n # y.n
        /\ \A F \in S : \A D \in Range(ms_depends(r, F)) :
              D.optional \/ Range(find_matches(r, D)) \cap S # {}
        /\ \A i \in DOMAIN specs :
              specs[i].optional \/ Range(find_matches(r, specs[i])) \cap S # {}}

EachSpecVerifies ==
    \A i \in DOMAIN last.specs :
        last.specs[i].optional \/ verify_specs(r, <<last.specs[i]>>, FALSE) = "ok"

\* the files the strictness-3 specs of the call name
SpecFiles == {to_filename(last.specs[i]) : i \in DOMAIN last.specs} \ {NoKey}

\* the lists a first install(specs) on an empty environment can return
FirstResults ==
    LET res == solve(r, last.specs, Len(last.specs))
    IN IF res.exc # "" THEN {} ELSE {clean_sorted(S) : S \in res.sols}

(***************************************************************************)
(* C1.  As claimed: no two entries of a list returned by install, remove   *)
(* or solve (each inner list when returnall) have the same package name,   *)
(* whatever the index, the specs and the installed list.  TLC refutes it   *)
(* for an installed list that holds two entries of one name: restore_bad   *)
(* puts both back.                                                         *)
(***************************************************************************)
C1_NoTwoOfOneName ==
    /\ Returned => NoTwoOfOneName(last.pkgs)
    /\ last.returnall /\ last.exc = "" => \A L \in last.all : NoTwoOfOneName(L)

(***************************************************************************)
(* C1, amended.  When no two entries of the installed list have the same   *)
(* package name, no two entries of a list returned by install, remove or   *)
(* solve (each inner list when returnall) have the same package name.      *)
(***************************************************************************)
C1_NoTwoOfOneNameFromDistinct ==
    /\ Returned /\ NoTwoOfOneName(last.installed) => NoTwoOfOneName(last.pkgs)
    /\ last.returnall /\ last.exc = "" /\ NoTwoOfOneName(last.installed) =>
          \A L \in last.all : NoTwoOfOneName(L)

\* C1, witness: the returned list holds an fkey selected as its virtual
\* variant and an entry that restore_bad put back
C1_Witness ==
    /\ Returned /\ NoTwoOfOneName(last.installed)
    /\ \E k \in last.sel : IsVirtual(k)
    /\ Range(last.preserve) \cap Range(last.pkgs) # {}

(***************************************************************************)
(* C2.  Every mandatory dependency that the index declares for an fkey of  *)
(* a list returned by solve/install is matched by an fkey of that list,    *)
(* also for an fkey returned in place of its virtual '[fstr]' variant.     *)
(* The code does not keep this: the variant carries the dependencies of    *)
(* with_features_depends, and the stripped fkey declares others.           *)
(***************************************************************************)
C2_DependenciesSatisfied ==
    last.op = "install" /\ last.installed = <<>> /\ last.exc = "" =>
        /\ ~last.returnall => Closed(last.pkgs)
        /\ last.returnall => \A L \in last.all : Closed(L)

C4_OnlyDeclaredExceptions ==
    last.op \in {"install", "remove"} /\ ~last.returnall =>
        last.exc \in {"", "Unsatisfiable", "NoPackagesFound"}

(***************************************************************************)
(* C5.  install(specs) raises NoPackagesFound exactly when some mandatory  *)
(* spec has no matching artifact whose mandatory dependencies are          *)
(* recursively satisfiable in the index.  The code does not: the filter    *)
(* that valid fills keeps the answer it gave inside a dependency cycle.    *)
(***************************************************************************)
C5_NoPackagesFoundExactly ==
    Fresh => (last.exc = "NoPackagesFound" <=> SomeSpecHasNoCandidate)

(***************************************************************************)
(* C6.  When every mandatory spec verifies on its own and no set of        *)
(* artifacts satisfies the mandatory specs together, with one artifact per *)
(* name and every mandatory dependency satisfied, install raises           *)
(* Unsatisfiable.  The code raises KeyError in some of these cases.        *)
(***************************************************************************)
C6_UnsatisfiableRaised ==
    Fresh /\ EachSpecVerifies /\ JointSolutions(last.specs) = {} =>
        last.exc = "Unsatisfiable"

(***************************************************************************)
(* C7.  As claimed: after remove(specs, installed) no returned fkey has a  *)
(* name listed in specs, and every installed package that mandatorily      *)
(* depends on a removed name is absent from the result.  TLC refutes the   *)
(* second half: remove preserves the packages of an installed set that is  *)
(* not consistent.                                                         *)
(***************************************************************************)
C7_RemovedAndDependentsAbsent ==
    last.op = "remove" /\ last.exc = "" =>
        /\ \A G \in Range(last.pkgs) : package_name(r, G) \notin Range(last.names)
        /\ \A F \in Range(last.installed) \cap DOMAIN r.index :
              DependsOn(F, Range(last.names)) => F \notin Range(last.pkgs)

(***************************************************************************)
(* C7, amended.  After remove(specs, installed) no returned fkey has a     *)
(* name listed in specs, and an installed package that mandatorily depends *)
(* on a removed name is in the result only as an entry that remove         *)
(* preserves, which it does when the installed set is not consistent.      *)
(***************************************************************************)
C7_RemovedAbsentDependentsOnlyPreserved ==
    last.op = "remove" /\ last.exc = "" =>
        /\ \A G \in Range(last.pkgs) : package_name(r, G) \notin Range(last.names)
        /\ \A F \in Range(last.installed) \cap DOMAIN r.index :
              DependsOn(F, Range(last.names)) /\ F \in Range(last.pkgs) =>
                  F \in Range(last.preserve)

\* C7, witness: a package of the removed name was installed, another
\* installed package depends on it, and the list returned, which is not
\* empty, holds neither
C7_Witness ==
    /\ last.op = "remove" /\ last.exc = "" /\ last.pkgs # <<>>
    /\ \E F \in Range(last.installed) : F.n \in Range(last.names)
    /\ \E F \in Range(last.installed) \cap DOMAIN r.index :
          /\ F.n \notin Range(last.names)
          /\ DependsOn(F, Range(last.names))
          /\ F \notin Range(last.pkgs)

(***************************************************************************)
(* C8.  As claimed: for a consistent installed set, remove returns         *)
(* unchanged every installed fkey whose name is not removed and that does  *)
(* not transitively depend on a removed name, and returns no fkey that was *)
(* not installed.  TLC refutes it: the lower bound '>=ver' lets the solver *)
(* return a later version.                                                 *)
(***************************************************************************)
C8_RemoveKeepsTheRest ==
    last.op = "remove" /\ last.exc = "" /\ Consistent(last.installed) =>
        /\ \A F \in Range(last.installed) :
              /\ F.n \notin Range(last.names)
              /\ ~TransDep(F, last.installed, Range(last.names))
              => F \in Range(last.pkgs)
        /\ Range(last.pkgs) \subseteq Range(last.installed)

(***************************************************************************)
(* C8, amended.  For a consistent installed set, remove returns no         *)
(* package at a version lower than the installed version of its name; it   *)
(* may return a later version, which was not installed.                    *)
(***************************************************************************)
C8_RemoveNeverDowngrades ==
    last.op = "remove" /\ last.exc = "" /\ Consistent(last.installed) =>
        \A G \in Range(last.pkgs) : \A F \in Range(last.installed) :
            package_name(r, F) = package_name(r, G) =>
                package_triple(r, F)[2] <= package_triple(r, G)[2]

\* C8, witness: remove on a consistent installed set returns a later
\* version of an installed package
C8_Witness ==
    /\ last.op = "remove" /\ last.exc = "" /\ Consistent(last.installed)
    /\ \E G \in Range(last.pkgs) : \E F \in Range(last.installed) :
          /\ package_name(r, F) = package_name(r, G)
          /\ package_triple(r, F)[2] < package_triple(r, G)[2]

(***************************************************************************)
(* C9.  install is idempotent: when install(S) returns a list,             *)
(* install(S, installed = that list) returns the same list.  The code      *)
(* raises KeyError on the second call in some cases.                       *)
(***************************************************************************)
C9_InstallIdempotent ==
    /\ last.op = "install" /\ ~last.returnall /\ last.update_deps
    /\ last.installed # <<>> /\ last.installed \in FirstResults
    => last.exc = "" /\ last.pkgs = last.installed

(***************************************************************************)
(* C10.  With update_deps = False, every installed fkey that is in the     *)
(* index, whose name no user spec names and that the limit set does not    *)
(* exclude, is in the list install returns: these are the fkeys            *)
(* install_specs pins, the specs it appends to the user's.  The code       *)
(* returns lists without them.                                             *)
(***************************************************************************)
C10_PinnedAreReturned ==
    last.op = "install" /\ last.exc = "" /\ ~last.update_deps /\ ~last.returnall =>
        \A i \in (Len(last.specs) + 1)..Len(last.solved) :
            to_filename(last.solved[i]) \in Range(last.pkgs)

(***************************************************************************)
(* C11.  With update_deps = True and a consistent installed set whose      *)
(* fkeys are all in the index, the list install returns holds an artifact  *)
(* of every installed package name.                                        *)
(***************************************************************************)
C11_InstalledNamesKept ==
    /\ last.op = "install" /\ last.update_deps /\ last.exc = ""
    /\ Consistent(last.installed)
    => /\ ~last.returnall =>
            \A F \in Range(last.installed) : \E G \in Range(last.pkgs) :
                package_name(r, G) = package_name(r, F)
       /\ last.returnall =>
            \A L \in last.all : \A F \in Range(last.installed) :
                \E G \in Range(L) : package_name(r, G) = package_name(r, F)

\* the priority number of the record of F
Priority(F) == r.index[F].priority

\* the artifacts of name n that some admissible solution for the specs of
\* the call holds
RequestedCands(n) == {H \in UNION JointSolutions(last.specs) : H.n = n}

\* every spec of the call names the same package
OneNameRequested ==
    \A i, j \in DOMAIN last.specs : last.specs[i].name = last.specs[j].name

(***************************************************************************)
(* C12.  As claimed: the artifact install returns for a requested name     *)
(* has, with channel_priority on, a priority number no higher than that of *)
(* any artifact of the name that an admissible solution holds, and with    *)
(* channel_priority off a version no older, under the setting and the      *)
(* priority values current at the call.  TLC refutes it for a request that *)
(* names two packages: the version metric is a sum over the requested      *)
(* names, and the best artifact of one name may exclude that of another.   *)
(***************************************************************************)
C12_LowerPriorityWins ==
    last.op = "install" /\ last.exc = "" /\ ~last.returnall /\ last.installed = <<>> =>
        \A i \in DOMAIN last.specs : \A G \in Range(last.pkgs) :
            G.n = last.specs[i].name =>
                \A H \in RequestedCands(G.n) :
                    /\ channel_priority => Priority(G) <= Priority(H)
                    /\ ~channel_priority => G.v >= H.v

(***************************************************************************)
(* C12, amended.  When every spec of install names the same package, the   *)
(* artifact returned for it has, with channel_priority on, a priority      *)
(* number no higher than that of any artifact of the name that an          *)
(* admissible solution holds, also when that one is newer; with            *)
(* channel_priority off it has a version no older, whatever the            *)
(* priorities; the setting and the priorities are those current at the     *)
(* call.                                                                   *)
(***************************************************************************)
C12_LowerPriorityWinsOneName ==
    /\ last.op = "install" /\ last.exc = "" /\ ~last.returnall /\ last.installed = <<>>
    /\ OneNameRequested
    => \A i \in DOMAIN last.specs : \A G \in Range(last.pkgs) :
            G.n = last.specs[i].name =>
                \A H \in RequestedCands(G.n) :
                    /\ channel_priority => Priority(G) <= Priority(H)
                    /\ ~channel_priority => G.v >= H.v

\* C12, witness: a second call on the same Resolve with the same specs,
\* made after the priorities changed, returns another list than the first:
\* an older artifact of lower priority number
C12_Witness ==
    /\ last.op = "install" /\ last.exc = "" /\ ~last.returnall /\ last.installed = <<>>
    /\ OneNameRequested /\ channel_priority
    /\ prev.call.op = "install" /\ prev.call.exc = "" /\ ~prev.call.returnall
    /\ prev.call.specs = last.specs /\ prev.channel_priority
    /\ prev.index # r.index
    /\ prev.call.pkgs # last.pkgs
    /\ \E G \in Range(last.pkgs) : \E H \in RequestedCands(G.n) :
          Priority(G) < Priority(H) /\ G.v < H.v

\* the call is install(S + [o]) on an empty environment: S mandatory specs,
\* o an optional one
MandatoryPart == SubSeq(last.specs, 1, Len(last.specs) - 1)

OptionalPart == last.specs[Len(last.specs)]

WithOptional ==
    /\ last.op = "install" /\ last.installed = <<>> /\ last.specs # <<>>
    /\ OptionalPart.optional
    /\ \A i \in DOMAIN MandatoryPart : ~MandatoryPart[i].optional

\* the clauses and constraints over the whole index
Admissible(specs) == sat(Resolve(r.index, TRUE, TRUE), specs)

\* the fkey has the name of the spec and does not match it
Mismatches(ms, fkey) ==
    /\ ~IsFeatName(ms.name)
    /\ r.index[fkey].name = ms.name
    /\ ~Resolve_match_fast(r, ms, fkey)

(***************************************************************************)
(* C13.  As claimed: every artifact set that is an admissible solution for *)
(* S is admissible for S + [o], o an optional spec, and install(S + [o])   *)
(* does not raise Unsatisfiable when S has an admissible solution.  TLC    *)
(* refutes it: an optional spec forbids the artifacts of its name that it  *)
(* does not match.                                                         *)
(***************************************************************************)
C13_OptionalForbidsNothing ==
    WithOptional =>
        /\ Admissible(MandatoryPart) \subseteq Admissible(last.specs)
        /\ JointSolutions(MandatoryPart) # {} => last.exc # "Unsatisfiable"

(***************************************************************************)
(* C13, amended.  An optional spec o need not be matched, but forbids the  *)
(* artifacts of its name that it does not match: the admissible solutions  *)
(* for S + [o] are the admissible solutions for S that hold no such        *)
(* artifact, and a list install(S + [o]) returns holds none.               *)
(***************************************************************************)
C13_OptionalForbidsMismatches ==
    WithOptional =>
        /\ Admissible(last.specs) =
             {T \in Admissible(MandatoryPart) : \A k \in T : ~Mismatches(OptionalPart, k)}
        /\ last.exc = "" /\ ~last.returnall =>
             \A k \in Range(last.pkgs) : ~Mismatches(OptionalPart, k)
        /\ last.exc = "" /\ last.returnall =>
             \A L \in last.all : \A k \in Range(L) : ~Mismatches(OptionalPart, k)

\* C13, witness: install(S + [o]) returns a list with an artifact of the
\* name of o, and an admissible solution for S is not admissible for S + [o]
C13_Witness ==
    /\ WithOptional /\ last.exc = "" /\ ~last.returnall
    /\ \E k \in Range(last.pkgs) : r.index[k].name = OptionalPart.name
    /\ Admissible(MandatoryPart) \ Admissible(last.specs) # {}
    /\ \E k \in last.sel : k \in Range(find_matches(r, OptionalPart))

\* the names that depend on one another in a cycle through n
CycleOf(n) == {k \in get_(r, {n}, {}) : n \in get_(r, {k}, {})} \ {NoName}

\* n is on a dependency cycle, every name of the cycle has one artifact,
\* and the dependencies of each are satisfiable, taking the cycle as
\* satisfiable
OnCleanCycle(n) ==
    /\ n \in DOMAIN r.groups
    /\ \E F \in Range(r.groups[n]) : \E D \in Range(ms_depends(r, F)) :
          n \in get_(r, {D.name}, {})
    /\ \A k \in CycleOf(n) :
          /\ Len(groups_get(r, k)) = 1
          /\ Range(groups_get(r, k)) \subseteq Satisfiable(DOMAIN r.index)

\* the lists install(specs) on an empty environment can return
ResultsOf(specs) ==
    LET res == solve(r, specs, Len(specs))
    IN IF res.exc # "" THEN {} ELSE {clean_sorted(S) : S \in res.sols}

RequestedMetric(T) ==
    Objective(generate_version_metrics(Resolve(r.index, TRUE, TRUE), last.specs, FALSE).eqv, T)

\* install(specs) of mandatory specs on an empty environment returned pkgs
FreshList ==
    /\ Fresh /\ last.exc = ""
    /\ \A i \in DOMAIN last.specs : ~last.specs[i].optional

BuiltWith(H, G, t) ==
    /\ H \in DOMAIN r.index /\ G \in DOMAIN r.index
    /\ r.index[H].name = r.index[G].name
    /\ r.index[H].version = r.index[G].version
    /\ r.index[H].build_number = r.index[G].build_number
    /\ r.index[H].depends = r.index[G].depends
    /\ track_features(r, H) = track_features(r, G)
    /\ t \notin features(r, G)
    /\ features(r, H) = features(r, G) \cup {t}

\* the features tracked by the artifacts of the returned list
TrackedIn(pkgs) == UNION {track_features(r, F) : F \in Range(pkgs) \cap DOMAIN r.index}

(***************************************************************************)
(* C16.  As claimed: when an artifact of a returned list tracks feature t, *)
(* every artifact of the list whose package has a variant with t among its *)
(* features has t among its own features.                                  *)
(***************************************************************************)
C16_FeaturedVariantsChosen ==
    Returned =>
        \A t \in TrackedIn(last.pkgs) : \A G \in Range(last.pkgs) \cap DOMAIN r.index :
            (\E H \in DOMAIN r.index : r.index[H].name = r.index[G].name /\ t \in features(r, H))
                => t \in features(r, G)

(***************************************************************************)
(* C16, like for like.  When an artifact of the list install returns       *)
(* tracks feature t, no artifact G of the list has a variant H built with  *)
(* t (same version, build number and dependencies) that could take G's     *)
(* place in the list.                                                      *)
(***************************************************************************)
C16_FeaturedTwinChosen ==
    FreshList =>
        \A t \in TrackedIn(last.pkgs) : \A G \in Range(last.pkgs) \cap DOMAIN r.index :
            \A H \in DOMAIN r.index :
                BuiltWith(H, G, t) =>
                    ((Range(last.pkgs) \ {G}) \cup {H}) \notin JointSolutions(last.specs)

\* install returned t-1-0 and the artifact of b built with f, not the plain
\* artifact of the same version and build number
C16_Witness ==
    /\ FreshList
    /\ {t1, b1f} \subseteq Range(last.pkgs)
    /\ BuiltWith(b1f, b1, "f")

\* the artifacts of the index that track a feature, and those built with one
Trackers == {k \in DOMAIN r.index : track_features(r, k) # {}}
Featured == {k \in DOMAIN r.index : features(r, k) # {}}

\* no spec of the call names a feature or a package with a tracker, and no
\* requested package has an artifact built with a feature
NoFeatureRequested ==
    \A i \in DOMAIN last.specs :
        /\ ~IsFeatName(last.specs[i].name)
        /\ \A k \in Trackers \cup Featured : r.index[k].name # last.specs[i].name

\* the admissible solutions that hold no tracker
TrackerFree == {T \in JointSolutions(last.specs) : T \cap Trackers = {}}

\* T holds, of every requested package, an artifact as new in version and
\* build number as any that an admissible solution holds
HoldsNewestRequested(T) ==
    \A i \in DOMAIN last.specs : \A H \in RequestedCands(last.specs[i].name) :
        \E G \in T : /\ G.n = H.n
                     /\ ~VKeyLT(version_key(r.index, G), version_key(r.index, H))

(***************************************************************************)
(* C17.  As claimed: when no spec names a feature or a tracker package, no *)
(* requested package has a featured variant and some admissible solution   *)
(* holds no tracker, the list install returns holds no artifact built with *)
(* a feature.                                                              *)
(***************************************************************************)
C17_NoFeaturesUnlessAsked ==
    FreshList /\ NoFeatureRequested /\ TrackerFree # {} =>
        Range(last.pkgs) \cap Featured = {}

(***************************************************************************)
(* C17, the requested versions first.  Under the same conditions, when     *)
(* some admissible solution without a tracker holds the newest admissible  *)
(* artifact of every requested package, the list install returns holds no  *)
(* artifact built with a feature and no tracker.                           *)
(***************************************************************************)
C17_NoFeaturesUnlessNewestNeedsThem ==
    /\ FreshList /\ NoFeatureRequested
    /\ \E T \in TrackerFree : HoldsNewestRequested(T)
    => Range(last.pkgs) \cap (Featured \cup Trackers) = {}

\* install of a returned the plain b-1-0 although b-2-1, built with f, is
\* newer and the tracker t-1-0 is in the index
C17_Witness ==
    /\ FreshList /\ NoFeatureRequested
    /\ \E T \in TrackerFree : HoldsNewestRequested(T)
    /\ {b2f, t1} \subseteq DOMAIN r.index
    /\ b2 \notin DOMAIN r.index
    /\ \E G \in Range(last.pkgs) : G.n = "a"
    /\ b1 \in Range(last.pkgs)

\* the call ran solve on the specs last.solved
Solved == last.op \in {"install", "remove"}

(***************************************************************************)
(* C18.  solve ends on every index: the for loop of get_dists begins at    *)
(* most 10 passes, the loop that looks for alternate solutions calls sat   *)
(* at most 10 times, and solve with returnall returns at least 1 and at    *)
(* most 10 lists.                                                          *)
(***************************************************************************)
C18_SolveBounded ==
    Solved =>
        /\ get_dists(r, last.solved).iters \in 0..MaxIter
        /\ last.exc = "" /\ last.returnall =>
              /\ last.sat_calls \in 0..MaxSolutions
              /\ Cardinality(last.all) \in 1..MaxSolutions

\* solve with returnall listed 10 of more than 10 solutions, after a
\* second pass of the for loop of get_dists that pruned the tracker
C18_Witness ==
    /\ Solved /\ last.exc = "" /\ last.returnall
    /\ get_dists(r, last.solved).iters = 2
    /\ Cardinality(solve(r, last.solved, Len(last.specs)).sols) > MaxSolutions
    /\ last.sat_calls = MaxSolutions
    /\ Cardinality(last.all) = MaxSolutions

\* a sorted list of fkeys without a '[fstr]' suffix
SortedReal(pkgs) == IsSortedKeys(pkgs) /\ \A i \in DOMAIN pkgs : ~IsVirtual(pkgs[i])

(***************************************************************************)
(* C19.  As claimed: every list install and remove return, and every list  *)
(* of a returnall result, is sorted in ascending order and holds no        *)
(* '[fstr]' suffix, also when restore_bad has added preserved packages.    *)
(* (An assignment is the set of its true fkeys: the proxy names never      *)
(* enter a list.)                                                          *)
(***************************************************************************)
C19_SortedRealFkeys ==
    /\ Returned => SortedReal(last.pkgs)
    /\ Solved /\ last.exc = "" /\ last.returnall => \A L \in last.all : SortedReal(L)

(***************************************************************************)
(* C19, the preserved packages last.  A list install or remove returns is  *)
(* a sorted list without '[fstr]' suffixes followed by the preserved       *)
(* packages whose names it lacks, in the order of installed; every list    *)
(* of a returnall result is sorted and without suffixes.                   *)
(***************************************************************************)
C19_SortedThenPreserved ==
    /\ Returned =>
          \E n \in 0..Len(last.pkgs) :
              LET head == SubSeq(last.pkgs, 1, n)
              IN /\ SortedReal(head)
                 /\ SubSeq(last.pkgs, n + 1, Len(last.pkgs))
                      = SeqFilter(last.preserve,
                            {p \in Range(last.preserve) :
                               package_name(r, p) \notin
                                   {package_name(r, head[i]) : i \in DOMAIN head}})
    /\ Solved /\ last.exc = "" /\ last.returnall => \A L \in last.all : SortedReal(L)

\* the solver chose an fkey with a '[fstr]' suffix and the list returned
\* ends with a preserved package
C19_Witness ==
    /\ Returned
    /\ \E k \in last.sel : IsVirtual(k)
    /\ last.preserve # <<>>
    /\ last.pkgs # <<>>
    /\ last.pkgs[Len(last.pkgs)] \in Range(last.preserve)
    /\ last.pkgs[1] \notin Range(last.preserve)

\* dependency_sort returned a list for a must_have without a cycle
SortedAcyclic ==
    /\ last.op = "dependency_sort" /\ last.exc = ""
    /\ Acyclic(digraph_of(r, last.must_have))

(***************************************************************************)
(* C20.  For a must_have whose dependency graph has no cycle, the list     *)
(* dependency_sort returns is a permutation of the values of must_have in  *)
(* which every entry whose name is a dependency name of another entry      *)
(* comes before that entry.                                                *)
(***************************************************************************)
C20_DependenciesFirst ==
    SortedAcyclic =>
        /\ Len(last.pkgs) = Cardinality(DOMAIN last.must_have)
        /\ Range(last.pkgs) = {last.must_have[key] : key \in DOMAIN last.must_have}
        /\ \A i, j \in DOMAIN last.pkgs :
              i # j /\ last.pkgs[i][1] \in lookup(r, last.pkgs[j]) => i < j

\* four entries, returned in an order that is not the order of the names:
\* m first, a last
C20_Witness ==
    /\ SortedAcyclic
    /\ Len(last.pkgs) = 4
    /\ last.pkgs[1] = Dist(m1)
    /\ last.pkgs[4][1] = "a"
    /\ "m" \in lookup(r, last.pkgs[4])

\* the number of x that are "True"
TrueAmong(xs) == Cardinality({i \in DOMAIN xs : xs[i] = "True"})

(***************************************************************************)
(* C21.  For Packages a, b of one name exactly one of a < b, a == b, b < a *)
(* holds, <=, >, >=, != agree with it, and < is transitive; for Packages   *)
(* of different names <, <=, >, >= raise TypeError, == is False and != is  *)
(* True.                                                                   *)
(***************************************************************************)
C21_PackageOrder ==
    last.op = "compare" =>
        LET a == last.args[1]
            b == last.args[2]
            o == last.out
        IN IF a.name = b.name
           THEN /\ TrueAmong(<<o.lt, o.eq, Package_lt(b, a)>>) = 1
                /\ o.le = Bool(o.lt = "True" \/ o.eq = "True")
                /\ o.gt = Package_lt(b, a)
                /\ o.ge = Bool(o.gt = "True" \/ o.eq = "True")
                /\ o.ne = Bool(o.eq = "False")
                /\ o.eq = Bool(PackageTuple(a) = PackageTuple(b))
                /\ \A c \in Packages :
                      c.name = a.name /\ o.lt = "True" /\ Package_lt(b, c) = "True"
                          => Package_lt(a, c) = "True"
           ELSE /\ o.lt = "TypeError" /\ o.le = "TypeError"
                /\ o.gt = "TypeError" /\ o.ge = "TypeError"
                /\ o.eq = "False" /\ o.ne = "True"

\* two Packages of one name, version and build number that differ in the
\* build string: one is less than the other
C21_Witness ==
    /\ last.op = "compare"
    /\ last.args[1].name = last.args[2].name
    /\ last.args[1].norm_version = last.args[2].norm_version
    /\ last.args[1].build_number = last.args[2].build_number
    /\ last.args[1].build < last.args[2].build
    /\ last.out.lt = "True" /\ last.out.ne = "True" /\ last.out.ge = "False"

(***************************************************************************)
(* C22.  The hash of a MatchSpec depends only on its spec text: two        *)
(* MatchSpecs of one spec text have one hash.  Equal MatchSpecs have equal *)
(* hashes, and MatchSpecs that differ only in optional or target have      *)
(* equal hashes and are not equal.                                         *)
(***************************************************************************)
C22_HashOfSpecText ==
    last.op = "hash" =>
        LET a == last.args[1]
            b == last.args[2]
            o == last.out
        IN /\ SpecText(a) = SpecText(b) => o.hash[1] = o.hash[2]
           /\ o.eq => o.hash[1] = o.hash[2]
           /\ o.eq <=> (SpecText(a) = SpecText(b) /\ a.optional = b.optional /\ a.target = b.target)
           /\ SpecText(a) = SpecText(b) /\ (a.optional # b.optional \/ a.target # b.target)
                  => o.hash[1] = o.hash[2] /\ ~o.eq

\* 'a 1' and 'a 1 (optional)': one hash, not equal
C22_Witness ==
    /\ last.op = "hash"
    /\ last.args[1] = MSEq("a", 1)
    /\ last.args[2] = Optional(MSEq("a", 1))
    /\ last.out.hash[1] = last.out.hash[2]
    /\ ~last.out.eq

\* fkey declares a mandatory dependency on name
Declares(fkey, name) ==
    \E dep \in Range(ms_depends(r, fkey)) : dep.name = name /\ ~dep.optional

\* the names whose group filter_group has visited
Visited(filter) == {r.index[k].name : k \in DOMAIN filter}

Survivors(filter, name) == {k \in DOMAIN filter : r.index[k].name = name /\ filter[k]}

(***************************************************************************)
(* C23.  filter_group prunes the group of a dependency name on behalf of a *)
(* parent group only when every surviving member of the parent declares a  *)
(* mandatory dependency on that name: every group it has visited, other    *)
(* than that of the spec it was called with, has a visited parent group    *)
(* with a survivor all of whose survivors declare the name.                *)
(***************************************************************************)
C23_PrunedOnlyWhenShared ==
    last.op = "filter_group" =>
        \A name \in Visited(last.out.filter) \ {last.args[1].name} :
            \E parent \in Visited(last.out.filter) \ {name} :
                /\ Survivors(last.out.filter, parent) # {}
                /\ \A fkey \in Survivors(last.out.filter, parent) : Declares(fkey, name)

\* filter_group(['a']) over a1 and a2 and both b: a2 survives and declares
\* no dependency on b, and b-2-0 is pruned
C23_SoleDeclarerPrunes ==
    /\ last.op = "filter_group"
    /\ last.args = <<MSName("a")>>
    /\ {a1, a2} \subseteq Survivors(last.out.filter, "a")
    /\ ~Declares(a2, "b")
    /\ b2 \in DOMAIN last.out.filter /\ ~last.out.filter[b2]

\* the call was given a mandatory spec
SomeMandatory(specs) == \E i \in DOMAIN specs : ~specs[i].optional

(***************************************************************************)
(* C24.  The pruner discards no solution: when some set of artifacts of    *)
(* the index matches every mandatory spec, holds at most one artifact per  *)
(* name and satisfies the mandatory dependencies of its members, get_dists *)
(* reports no unsat name, its dists hold a match of every mandatory spec,  *)
(* and solve returns a non-empty list.                                     *)
(***************************************************************************)
C24_PrunerKeepsSolutions ==
    Fresh /\ SomeMandatory(last.specs) /\ JointSolutions(last.specs) # {} =>
        /\ last.exc = ""
        /\ last.pkgs # <<>>
        /\ \E gd \in {get_dists(r, last.specs)} :
              /\ gd.exc = ""
              /\ gd.unsat = NoName
              /\ \A i \in DOMAIN last.specs :
                    last.specs[i].optional
                    \/ Range(find_matches(r, last.specs[i])) \cap gd.dists # {}

(***************************************************************************)
(* C25.  touch(specs, filter) leaves the list its caller passed as it was: *)
(* after the call the list holds the specs it held before.                 *)
(***************************************************************************)
C25_TouchKeepsSpecs ==
    last.op = "touch" => last.out.specs = last.specs

\* the filter after the two queries of the call, asked in the other order
FilterReversed ==
    valid(r, last.args[1], valid(r, last.args[2], EmptyDict).filter).filter

\* every fkey recorded True finds a match recorded True for each of its
\* mandatory dependencies
Fixpoint(filter) ==
    \A fkey \in DOMAIN filter :
        filter[fkey] =>
            \A dep \in Range(ms_depends(r, fkey)) :
                dep.optional
                \/ \E g \in Range(find_matches(r, dep)) : g \in DOMAIN filter /\ filter[g]

(***************************************************************************)
(* C26.  After valid(x, filter) returns the filter holds a fixpoint, and   *)
(* the value recorded for an fkey is the same whichever of two queries was *)
(* evaluated first against the filter.                                     *)
(***************************************************************************)
C26_ValidFixpoint ==
    last.op = "valid" =>
        /\ Fixpoint(last.out.filter)
        /\ \A fkey \in DOMAIN last.out.filter \cap DOMAIN FilterReversed :
              last.out.filter[fkey] = FilterReversed[fkey]

\* the records of the index that no construction added
RealPart(index) == Restrict(index, {k \in DOMAIN index : ~IsVirtual(k)})

GroupSets(res) == [name \in DOMAIN res.groups |-> Range(res.groups[name])]

(***************************************************************************)
(* C27.  The index of a Resolve holds, beside the real records, exactly    *)
(* one virtual key for each real record and each activation string of its  *)
(* with_features_depends and no virtual key derived from a virtual key;    *)
(* after a second construction over the same dict the key set and the      *)
(* groups are those of the first.                                          *)
(***************************************************************************)
C27_ConstructionRepeatable ==
    /\ DOMAIN r.index = DOMAIN AddVirtual(RealPart(r.index))
    /\ \A k \in DOMAIN r.index : ~(IsVirtual(k) /\ IsVirtual(BaseKey(k)))
    /\ GroupSets(r) = GroupSets(Resolve(RealPart(r.index), FALSE, FALSE))

\* the targets of the specs that are in the index
Targets(specs) ==
    {specs[i].target : i \in DOMAIN specs} \cap DOMAIN r.index

\* the version coefficient of every artifact the metrics list
Eqv == last.out.all.eqv

Version(fkey) == r.index[fkey].version

\* same name, version and channel priority: differing only in build
OnlyBuildDiffers(p, q) ==
    /\ r.index[p].name = r.index[q].name
    /\ Version(p) = Version(q)
    /\ r.index[p].priority = r.index[q].priority

\* what generate_version_metrics promises of its version coefficients
VersionCoefficients ==
    /\ \A p \in DOMAIN Eqv, q \in DOMAIN Eqv :
          /\ OnlyBuildDiffers(p, q) => Eqv[p] = Eqv[q]
          /\ r.index[p].name = r.index[q].name /\ Version(p) < Version(q) => Eqv[p] > Eqv[q]
    /\ IF last.args[1] THEN last.out.eqv = Eqv
       ELSE /\ DOMAIN last.out.eqv = {k \in DOMAIN Eqv : Eqv[k] # 0}
            /\ \A k \in DOMAIN last.out.eqv : last.out.eqv[k] = Eqv[k]

(***************************************************************************)
(* C28.  Over sorted groups and for any spec list, artifacts of one name   *)
(* that differ only in build have one version coefficient, a lower version *)
(* has a strictly higher version coefficient than a higher version of the  *)
(* same name, and the coefficients 0 are left out unless include0 is set.  *)
(***************************************************************************)
C28_VersionCoefficients ==
    last.op = "metrics" => VersionCoefficients

\* C28 for spec lists without a target in the index, channel_priority off
C28_VersionCoefficientsPlain ==
    last.op = "metrics" /\ Targets(last.specs) = {} /\ ~channel_priority
        => VersionCoefficients

\* 'a' and 'b' over the whole channel, include0 off: the newest of each
\* name is left out, the two builds of b 1 carry 1
C28_Witness ==
    /\ last.op = "metrics"
    /\ last.specs = <<MSName("a"), MSName("b")>>
    /\ ~last.args[1]
    /\ ~channel_priority
    /\ DOMAIN r.index = DOMAIN Channel10
    /\ last.out.eqv = (a1 :> 3) @@ (a2 :> 2) @@ (a3 :> 1) @@ (b1 :> 1) @@ (b1f :> 1)

\* the artifacts of the name of target t that the metrics list
Siblings(t) == {k \in DOMAIN Eqv : r.index[k].name = r.index[t].name}

(***************************************************************************)
(* C29.  When the specs carry one target and it is in the index, the       *)
(* target has coefficient 0 in both metrics, every artifact of a newer     *)
(* version has a strictly smaller version coefficient than every artifact  *)
(* of an older version, and of two artifacts of older versions the one     *)
(* closer to the target never has the larger coefficient.                  *)
(***************************************************************************)
C29_TargetMinimalChange ==
    last.op = "metrics" /\ Cardinality(Targets(last.specs)) = 1 =>
        \A t \in Targets(last.specs) :
            /\ Eqv[t] = 0
            /\ last.out.all.eqb[t] = 0
            /\ \A p \in Siblings(t), q \in Siblings(t) :
                  /\ Version(p) > Version(t) /\ Version(q) < Version(t) => Eqv[p] < Eqv[q]
                  /\ Version(q) < Version(p) /\ Version(p) < Version(t) => Eqv[p] <= Eqv[q]

\* solve handed install a solution: what install raises is its own
SolveReturned == solve(r, last.solved, Len(last.specs)).exc = ""

\* no package of the list has the name of fkey
NoClash(fkey, pkgs) ==
    \A i \in DOMAIN pkgs : package_name(r, pkgs[i]) # package_name(r, fkey)

(***************************************************************************)
(* C30.  install([], installed) returns the installed list as it was; and  *)
(* whenever solve returns, every fkey of preserve whose name is not that   *)
(* of a package of the solution is in the list install returns, and with   *)
(* returnall in every list it returns.                                     *)
(***************************************************************************)
C30_InstalledPreserved ==
    last.op = "install" =>
        /\ last.specs = <<>> =>
              /\ last.exc = ""
              /\ ~last.returnall => last.pkgs = last.installed
        /\ SolveReturned =>
              /\ last.exc = ""
              /\ \A i \in DOMAIN last.preserve :
                    IF last.returnall
                    THEN \A sol \in last.all :
                           NoClash(last.preserve[i], sol)
                               => last.preserve[i] \in Range(sol)
                    ELSE NoClash(last.preserve[i], clean_sorted(last.sel))
                             => last.preserve[i] \in Range(last.pkgs)

====
